---------------------------- MODULE Spec2Model ----------------------------
(***************************************************************************)
(* Model of the pydrama coordination layer:                                *)
(*   - drama/retry.py : RetryMonitor (reconnecting parameter monitor)      *)
(*   - drama/rts.py   : TaskWaiter and the reentrant actions INITIALISE,   *)
(*                      CONFIGURE, SETUP_SEQUENCE and SEQUENCE             *)
(* DRAMA delivers one message at a time to an action; every action of the  *)
(* model is one complete entry of a handler.                               *)
(***************************************************************************)
EXTENDS Integers, Sequences, FiniteSets

(***************************************************************************)
(* Bounds of the model.                                                    *)
(***************************************************************************)
\* transaction ids drama.monitor() may return: 1..MaxTid (0 marks an orphan message)
MaxTid == 2
\* monitor ids a MON_STARTED message may carry: 1..MaxMid
MaxMid == 2
\* RESCHED entries without a TRIGGER in between are explored up to this count
MaxResched == 3
\* RTS.STATE notifications still carry frames when SEQUENCE's counter has passed
\* its end by up to MaxOver
MaxOver == 1
\* a SEQUENCE is commanded anew only after one that published <= MaxBatches batches
MaxBatches == 0
\* frames in one RTS.STATE notification: 0..MaxFrames
MaxFrames == 2
\* values of a watched task's id that wait to be delivered: up to MaxNotes
MaxNotes == 2

\* Python's None, for tid, mid, MONITOR_ID and return values
None == -1

\* the value a task publishes as its CONFIGURE_ID / SETUP_SEQ_ID on failure
BadVal == -9999

VARIABLES
    rm,         \* the RetryMonitor instance, with the outcome of its last handle()
    rm_msg,     \* the message of the last handle() call
    rm_pre,     \* the RetryMonitor's fields as they were when that call began
    rm_hist,    \* what was handled before: see RMHistory
    user,       \* the user callbacks registered by rts.init()
    par,        \* the task's own DRAMA parameters (drama.set_param / get_param)
    ini,        \* INITIALISE: whether it is active, and INITIALISE.ret
    cfg,        \* CONFIGURE: whether it is active, CONFIGURE.tw and CONFIGURE.ret
    sus,        \* SETUP_SEQUENCE: the same
    seq,        \* SEQUENCE: the attributes of the function, see NoSeq
    ev,         \* the last entry of an action: message, outcome, calls made
    peer,       \* the task B running the same program, and this task's monitor on it
    returned    \* what the user callback returned in the running activation

rmvars == <<rm, rm_msg, rm_pre, rm_hist>>

rtsvars == <<user, par, ini, cfg, sus, seq, ev>>

vars ==
    <<rm, rm_msg, rm_pre, rm_hist, user, par, ini, cfg, sus, seq, ev, peer, returned>>

(***************************************************************************)
(* drama/retry.py                                                          *)
(***************************************************************************)
Tids == 1..MaxTid
Mids == 1..MaxMid

\* the callables an on_kick / on_resched / on_orphan slot may be assigned
Handlers == {"nop", "cancel", "start"}

\* drama.Message as far as RetryMonitor.handle reads it
NoMsg == [reason |-> "", transid |-> 0, status |-> "", mid |-> None]

RMMessages ==
    [reason : {"OBEY", "KICK", "RESCHED", "EXIT"}, transid : {0},
     status : {""}, mid : {None}]
    \cup
    [reason : {"DIED", "COMPLETE", "MESREJECTED"}, transid : 0..MaxTid,
     status : {""}, mid : {None}]
    \cup
    [reason : {"TRIGGER"}, transid : 0..MaxTid,
     status : {"MON_STARTED"}, mid : Mids]
    \cup
    [reason : {"TRIGGER"}, transid : 0..MaxTid,
     status : {"MON_CHANGED", "OTHER"}, mid : {None}]

\* RetryMonitor.__init__; calls and ret describe the last handle() call:
\* the drama calls and hooks it made, in order, and the value it returned
RetryMonitor ==
    [tid |-> None, mid |-> None, connected |-> FALSE, resched_count |-> 1,
     on_kick |-> "cancel", on_resched |-> "start", on_orphan |-> "nop",
     calls |-> <<>>, ret |-> FALSE]

\* a drama call or a hook call made by handle(), with self.tid as it was then
Called(m, op, id) ==
    [m EXCEPT !.calls = Append(@, [op |-> op, id |-> id, tid |-> m.tid])]

nop(m) == m

\* the bug of marking the monitor connected where cancel() must mark it disconnected
cancel_connected(m) ==
    IF m.mid # None
    THEN [Called(m, "drama.cancel", m.mid) EXCEPT !.connected = TRUE, !.mid = None]
    ELSE [m EXCEPT !.connected = TRUE]

\* the bug of a cancel() that does not look at self.mid
cancel_unguarded(m) ==
    [Called(m, "drama.cancel", m.mid) EXCEPT !.connected = FALSE, !.mid = None]

cancel(m) ==
    IF m.mid # None
    THEN [Called(m, "drama.cancel", m.mid) EXCEPT !.connected = FALSE, !.mid = None]
    ELSE [m EXCEPT !.connected = FALSE]

\* the bug of start() subscribing without looking at self.tid
start_unguarded(m, t, ok) ==
    LET c == cancel(m) IN
    [Called(c, "drama.monitor", t) EXCEPT !.tid = IF ok THEN t ELSE None]

\* t: the transaction id drama.monitor returns; ok: FALSE when it raises BadStatus
start(m, t, ok) ==
    LET c == cancel(m) IN
    IF c.tid = None
    THEN [Called(c, "drama.monitor", t) EXCEPT !.tid = IF ok THEN t ELSE None]
    ELSE c

\* the bug of a clear() that keeps the transaction id
clear_keeps_tid(m) == [m EXCEPT !.mid = None, !.connected = FALSE]

\* the bug of a clear() that leaves the monitor marked connected
clear_keeps_connected(m) == [m EXCEPT !.tid = None, !.mid = None]

clear(m) == [m EXCEPT !.tid = None, !.mid = None, !.connected = FALSE]

\* call of a handler slot (self.on_kick, self.on_resched, self.on_orphan)
Invoke(slot, h, m, t, ok) ==
    LET c == Called(m, slot, None) IN
    CASE h = "nop" -> nop(c)
      [] h = "cancel" -> cancel(c)
      [] h = "start" -> start(c, t, ok)

\* the bug of calling on_resched on every RESCHED
handle_resched_always(m, t, ok) ==
    [Invoke("on_resched", m.on_resched, m, t, ok) EXCEPT !.resched_count = @ + 1]

\* handle(), reason REA_RESCHED
handle_resched(m, t, ok) ==
    LET r == IF m.resched_count # 0
             THEN Invoke("on_resched", m.on_resched, m, t, ok)
             ELSE m
    IN [r EXCEPT !.resched_count = @ + 1]

\* the bug of reporting a change on MON_STARTED as well
handle_trigger_started(m, msg) ==
    LET z == [m EXCEPT !.resched_count = 0] IN
    IF msg.status = "MON_STARTED" THEN
        LET c == IF z.mid # None THEN cancel(z) ELSE z IN
        [c EXCEPT !.mid = msg.mid, !.connected = TRUE, !.ret = TRUE]
    ELSE IF msg.status = "MON_CHANGED" THEN
        [z EXCEPT !.connected = TRUE, !.ret = TRUE]
    ELSE z

\* the bug of a TRIGGER that leaves resched_count alone
handle_trigger_no_reset(m, msg) ==
    IF msg.status = "MON_STARTED" THEN
        LET c == IF m.mid # None THEN cancel(m) ELSE m IN
        [c EXCEPT !.mid = msg.mid, !.connected = TRUE]
    ELSE IF msg.status = "MON_CHANGED" THEN
        [m EXCEPT !.connected = TRUE, !.ret = TRUE]
    ELSE m

\* handle(), reason REA_TRIGGER of this transaction
handle_trigger(m, msg) ==
    LET z == [m EXCEPT !.resched_count = 0] IN
    IF msg.status = "MON_STARTED" THEN
        LET c == IF z.mid # None THEN cancel(z) ELSE z IN
        [c EXCEPT !.mid = msg.mid, !.connected = TRUE]
    ELSE IF msg.status = "MON_CHANGED" THEN
        [z EXCEPT !.connected = TRUE, !.ret = TRUE]
    ELSE z

\* the bug of a COMPLETE that clears and leaves the new subscription to a tick
handle_complete_waits(self, msg, t, ok) ==
    LET m == [self EXCEPT !.calls = <<>>, !.ret = FALSE] IN
    IF msg.reason = "OBEY" THEN start(clear(m), t, ok)
    ELSE IF msg.reason = "KICK" THEN Invoke("on_kick", m.on_kick, m, t, ok)
    ELSE IF msg.reason = "RESCHED" THEN handle_resched(m, t, ok)
    ELSE IF msg.reason = "DIED" /\ msg.transid = 0 THEN
        Invoke("on_orphan", m.on_orphan, m, t, ok)
    ELSE IF msg.reason = "EXIT" THEN cancel(m)
    ELSE IF msg.transid = m.tid THEN
        IF msg.reason \in {"COMPLETE", "DIED", "MESREJECTED"} THEN clear(m)
        ELSE IF msg.reason = "TRIGGER" THEN handle_trigger(m, msg)
        ELSE m
    ELSE m

handle(self, msg, t, ok) ==
    LET m == [self EXCEPT !.calls = <<>>, !.ret = FALSE] IN
    IF msg.reason = "OBEY" THEN start(clear(m), t, ok)
    ELSE IF msg.reason = "KICK" THEN Invoke("on_kick", m.on_kick, m, t, ok)
    ELSE IF msg.reason = "RESCHED" THEN handle_resched(m, t, ok)
    ELSE IF msg.reason = "DIED" /\ msg.transid = 0 THEN
        Invoke("on_orphan", m.on_orphan, m, t, ok)
    ELSE IF msg.reason = "EXIT" THEN cancel(m)
    ELSE IF msg.transid = m.tid THEN
        IF msg.reason = "COMPLETE" THEN start(clear(m), t, ok)
        ELSE IF msg.reason = "DIED" THEN clear(m)
        ELSE IF msg.reason = "MESREJECTED" THEN clear(m)
        ELSE IF msg.reason = "TRIGGER" THEN handle_trigger(m, msg)
        ELSE m
    ELSE m

(***************************************************************************)
(* drama/rts.py: parameters, messages, user callbacks                      *)
(***************************************************************************)
\* the remote tasks a user callback may put into a wait_set
Tasks == {"A", "B"}

AllCallbacks ==
    {"initialise", "configure", "setup_sequence",
     "sequence", "sequence_frame", "sequence_batch"}

\* rts.init(): the parameters that the actions read or that other tasks watch.
\* STATE_ holds the NUMBERs of the frames of the STATE parameter.
InitParams ==
    [INITIALISED |-> 0, CONFIGURED |-> 0, SETUP |-> 0, IN_SEQUENCE |-> 0,
     CONFIGURE_ID |-> -1, SETUP_SEQ_ID |-> -1, SEQUENCE_ID |-> -1,
     STSPL_INDEX |-> 0, STSPL_TOTAL |-> 0, STSPL_START |-> 0,
     STSPL_PUBLISH |-> 0, STSPL_BUFFCOUNT |-> 0,
     TASKS |-> "", STATE_ |-> <<0>>]

\* int(x) of an argument value: the strings below are the numerals used, any
\* other string raises ValueError
Numerals ==
    <<"0", "1", "2", "3", "4", "5", "6", "7", "8", "9", "10", "11", "12">>

IsInt(x) == \E n \in DOMAIN Numerals : Numerals[n] = x

int(x) == (CHOOSE n \in DOMAIN Numerals : Numerals[n] = x) - 1

\* the numeral of n
str(n) == Numerals[n + 1]

\* x.split() of the TASKS strings used
split(x) ==
    CASE x = "" -> {} [] x = "A" -> {"A"} [] x = "B" -> {"B"}
      [] x = "A B" -> {"A", "B"}

\* kwargs.get(k, d) / a keyword parameter with default d
Get(kw, k, d) == IF k \in DOMAIN kw THEN kw[k] ELSE d

\* all keyword dictionaries that give some of the keys of V one of its values V[k]
Kwargs(V) ==
    UNION {{kw \in [D -> UNION {V[k] : k \in D}] : \A k \in D : kw[k] \in V[k]} :
              D \in SUBSET DOMAIN V}

\* drama.Message as the actions read it: kw are the keyword arguments of an
\* OBEY, mid the MONITOR_ID of a MON_STARTED, val the value of a MON_CHANGED
NoKw == [k \in {} |-> ""]

Msg(reason, transid, status, kw, mid, val) ==
    [reason |-> reason, transid |-> transid, status |-> status,
     kw |-> kw, mid |-> mid, val |-> val, frames |-> <<>>]

\* a MON_CHANGED of RTS.STATE: frames are the NUMBERs of the frames it carries
StateMsg(transid, frames) ==
    [reason |-> "TRIGGER", transid |-> transid, status |-> "MON_CHANGED",
     kw |-> NoKw, mid |-> None, val |-> 0, frames |-> frames]

NoEntry == Msg("", 0, "", NoKw, None, 0)

\* an exception on its way out of an action: BadStatus(code, text) with the task
\* and value its text names, or any other exception ("ValueError", "UserError")
NoErr == [code |-> "", task |-> "", val |-> 0]

Err(code, task, val) == [code |-> code, task |-> task, val |-> val]

\* SEQUENCE keeps its state in attributes of the function: start, end, the
\* publish cadence, the monitor's transid and monid, the batch (state) and the
\* frame counter i.  acked: the monitor of this activation was acknowledged;
\* pubs: the frame counter and the batch length at each publish of this activation;
\* notified: a change notification of this activation's monitor has arrived
NoSeq ==
    [active |-> FALSE, start |-> None, end |-> None, stspl_total |-> 0,
     stspl_start |-> 0, stspl_publish |-> 0, transid |-> None, monid |-> None,
     acked |-> FALSE, state |-> <<>>, i |-> 0, ret |-> None, pubs |-> <<>>,
     notified |-> FALSE]

(***************************************************************************)
(* The state of one entry of an action, threaded through its statements:   *)
(*   par     the parameters                                                *)
(*   tw      the action's TaskWaiter                                       *)
(*   hret    the cached return value (CONFIGURE.ret, ...)                  *)
(*   exc     the exception raised so far (NoErr: none)                     *)
(*   resched whether a reschedule is requested (drama.rescheduled())       *)
(*   ended   whether the handler has returned, and retval what it returned *)
(*   calls   the drama calls made, in order                                *)
(*   cbn     the number of calls of the user callback                      *)
(*   dsc_out the done_set copy handed to the user callback, as it is when *)
(*           the callback has returned                                     *)
(*   waiting the value tw.waiting() returned ("" when it was not called)   *)
(*   q       the attributes of SEQUENCE                                    *)
(*   fn      the number of frames appended to the batch                    *)
(***************************************************************************)
Entry(p, tw, hret) ==
    [par |-> p, tw |-> tw, hret |-> hret, exc |-> NoErr, resched |-> FALSE,
     ended |-> FALSE, retval |-> None, calls |-> <<>>, cbn |-> 0,
     dsc_out |-> {}, waiting |-> "", q |-> NoSeq, fn |-> 0]

Failed(s) == s.exc # NoErr

\* the statements after a raise or a return are not executed
Over(s) == Failed(s) \/ s.ended

\* return value: the handler returns, with the reschedule request it leaves
Return(s, value) == [s EXCEPT !.ended = TRUE, !.retval = value]

Raise(s, code, task, val) == [s EXCEPT !.exc = Err(code, task, val)]

Call(s, op, task, id) ==
    [s EXCEPT !.calls = Append(@, [op |-> op, task |-> task, id |-> id])]

set_param(s, name, value) == [s EXCEPT !.par[name] = value]

(***************************************************************************)
(* class TaskWaiter                                                        *)
(***************************************************************************)
\* TaskWaiter.__init__; transid_dict maps a transaction id to [task, mid]
TaskWaiter(param, matchval, badval) ==
    [param |-> param, matchval |-> matchval, badval |-> badval,
     transid_dict |-> <<>>, wait_set |-> {}, done_set |-> {}]

\* the action holds no TaskWaiter
NoTW == TaskWaiter("", 0, 0)

\* an entry of SEQUENCE
SeqEntry(p, q) == [Entry(p, NoTW, q.ret) EXCEPT !.q = q]

Monitored(tw) == {tw.transid_dict[t].task : t \in DOMAIN tw.transid_dict}

\* the transaction id drama.monitor returns for the monitor on a task: a
\* TaskWaiter never has two transactions on one task, so the id is named after it
NewTransid(task) == IF task = "A" THEN 1 ELSE 2

\* the bug of a start_monitors that does not read the TASKS roster
start_monitor_no_roster(s, task, monok) ==
    LET c == Call(s, "drama.monitor", task, None) IN
    IF ~monok
    THEN Raise(c, "BadStatus", task, 0)
    ELSE [c EXCEPT !.tw.transid_dict =
             [t \in DOMAIN @ \cup {NewTransid(task)} |->
                 IF t \in DOMAIN @ THEN @[t]
                 ELSE [task |-> task, mid |-> None]]]

\* start_monitors: the loop body for one task of new_tasks; monok = FALSE when
\* drama.monitor raises BadStatus
start_monitor(s, task, monok) ==
    IF split(s.par.TASKS) # {} /\ task \notin split(s.par.TASKS)
    THEN [s EXCEPT !.tw.done_set = @ \cup {task}]
    ELSE LET c == Call(s, "drama.monitor", task, None) IN
         IF ~monok
         THEN Raise(c, "BadStatus", task, 0)
         ELSE [c EXCEPT !.tw.transid_dict =
                  [t \in DOMAIN @ \cup {NewTransid(task)} |->
                      IF t \in DOMAIN @ THEN @[t]
                      ELSE [task |-> task, mid |-> None]]]

\* the loop of start_monitors over new_tasks
RECURSIVE start_each(_, _, _)
start_each(s, new_tasks, monok) ==
    IF new_tasks = {} \/ Failed(s) THEN s
    ELSE LET task == CHOOSE x \in new_tasks : TRUE IN
         start_each(start_monitor(s, task, monok), new_tasks \ {task}, monok)

\* the bug of subscribing to every task of wait_set at every entry
start_monitors_again(s, monok) == start_each(s, s.tw.wait_set, monok)

start_monitors(s, monok) ==
    start_each(s, s.tw.wait_set \ Monitored(s.tw), monok)

\* the bug of raising on the failure value without recording the task as done
check_monitors_no_add(s, msg) ==
    IF msg.reason = "TRIGGER" /\ msg.transid \in DOMAIN s.tw.transid_dict
    THEN IF msg.status = "MON_STARTED"
         THEN [s EXCEPT !.tw.transid_dict[msg.transid].mid = msg.mid]
         ELSE IF msg.status = "MON_CHANGED"
         THEN LET e == s.tw.transid_dict[msg.transid]
                  d == IF msg.val = s.tw.matchval
                       THEN [Call(s, "drama.cancel", e.task, e.mid)
                                EXCEPT !.tw.done_set = @ \cup {e.task}]
                       ELSE s
              IN IF msg.val = s.tw.badval
                 THEN Raise(d, "RTSDC__GERROR", e.task, msg.val)
                 ELSE d
         ELSE s
    ELSE s

\* the bug of taking every published value as the end of the task
check_monitors_any_value(s, msg) ==
    IF msg.reason = "TRIGGER" /\ msg.transid \in DOMAIN s.tw.transid_dict
    THEN IF msg.status = "MON_STARTED"
         THEN [s EXCEPT !.tw.transid_dict[msg.transid].mid = msg.mid]
         ELSE IF msg.status = "MON_CHANGED"
         THEN LET e == s.tw.transid_dict[msg.transid]
                  d == [Call(s, "drama.cancel", e.task, e.mid)
                           EXCEPT !.tw.done_set = @ \cup {e.task}]
              IN IF msg.val = s.tw.badval
                 THEN Raise(d, "RTSDC__GERROR", e.task, msg.val)
                 ELSE d
         ELSE s
    ELSE s

\* the bug of cancelling the monitor of a task that reports the target without
\* recording the task as done
check_monitors_match_not_done(s, msg) ==
    IF msg.reason = "TRIGGER" /\ msg.transid \in DOMAIN s.tw.transid_dict
    THEN IF msg.status = "MON_STARTED"
         THEN [s EXCEPT !.tw.transid_dict[msg.transid].mid = msg.mid]
         ELSE IF msg.status = "MON_CHANGED"
         THEN LET e == s.tw.transid_dict[msg.transid]
                  d == IF msg.val = s.tw.matchval
                       THEN Call(s, "drama.cancel", e.task, e.mid)
                       ELSE IF msg.val = s.tw.badval
                       THEN [Call(s, "drama.cancel", e.task, e.mid)
                                EXCEPT !.tw.done_set = @ \cup {e.task}]
                       ELSE s
              IN IF msg.val = s.tw.badval
                 THEN Raise(d, "RTSDC__GERROR", e.task, msg.val)
                 ELSE d
         ELSE s
    ELSE s

check_monitors(s, msg) ==
    IF msg.reason = "TRIGGER" /\ msg.transid \in DOMAIN s.tw.transid_dict
    THEN IF msg.status = "MON_STARTED"
         THEN [s EXCEPT !.tw.transid_dict[msg.transid].mid = msg.mid]
         ELSE IF msg.status = "MON_CHANGED"
         THEN LET e == s.tw.transid_dict[msg.transid]
                  d == IF msg.val \in {s.tw.matchval, s.tw.badval}
                       THEN [Call(s, "drama.cancel", e.task, e.mid)
                                EXCEPT !.tw.done_set = @ \cup {e.task}]
                       ELSE s
              IN IF msg.val = s.tw.badval
                 THEN Raise(d, "RTSDC__GERROR", e.task, msg.val)
                 ELSE d
         ELSE s
    ELSE s

\* the bug of comparing the two sets for equality
waiting_unequal(tw) == tw.wait_set # tw.done_set

waiting(tw) == ~(tw.wait_set \subseteq tw.done_set)

(***************************************************************************)
(* User callbacks: what one call may do.  ret is the value returned, resched *)
(* whether the callback called drama.reschedule(), raises whether it ended   *)
(* with an exception; ws and dsc are the contents it left in the wait_set    *)
(* and in the done_set copy it was handed.                                   *)
(***************************************************************************)
\* the calls of initialise(msg) / sequence(msg) that return a value of R
PlainCallbacks(R) ==
    [ret : R, resched : BOOLEAN, raises : {FALSE}]
    \cup [ret : {None}, resched : {FALSE}, raises : {TRUE}]

\* the calls of configure / setup_sequence(msg, wait_set, done_set) on the
\* TaskWaiter tw: the callback does nothing, or asks for a reschedule, or raises,
\* or adds a task to or removes it from the wait_set or its copy of done_set
CohortCallbacks(tw) ==
    LET keep == [ws |-> tw.wait_set, dsc |-> tw.done_set, ret |-> None,
                 resched |-> FALSE, raises |-> FALSE]
    IN {keep, [keep EXCEPT !.resched = TRUE], [keep EXCEPT !.raises = TRUE]}
       \cup {[keep EXCEPT !.ws = IF t \in @ THEN @ \ {t} ELSE @ \cup {t}] :
                t \in Tasks}
       \cup {[keep EXCEPT !.dsc = IF t \in @ THEN @ \ {t} ELSE @ \cup {t}] :
                t \in Tasks}

\* the calls of sequence(msg), sequence_frame(frame) and sequence_batch(state)
\* in one entry: cb for sequence, frame "raise" when sequence_frame raises,
\* batch "shorten" when sequence_batch returns another list, "raise" when it raises
SequenceCallbacks ==
    {[cb |-> c, frame |-> "keep", batch |-> "keep"] : c \in PlainCallbacks({None})}
    \cup {[cb |-> [ret |-> None, resched |-> FALSE, raises |-> FALSE],
            frame |-> f, batch |-> b] :
              f \in {"keep", "raise"}, b \in {"keep", "shorten", "raise"}}

\* a callback that is not registered is not called
NoCb == [ws |-> {}, dsc |-> {}, ret |-> None, resched |-> FALSE, raises |-> FALSE]

(***************************************************************************)
(* INITIALISE                                                              *)
(***************************************************************************)
\* INITIALISE, the REA_OBEY block; numpy.int32 raises on a value that is no number
INITIALISE_obey(s, msg) ==
    LET total == Get(msg.kw, "STSPL_TOTAL", "1")
        first == Get(msg.kw, "STSPL_START", "0")
        a == [s EXCEPT !.hret = None, !.par.INITIALISED = 0, !.par.CONFIGURED = 0,
                       !.par.SETUP = 0, !.par.IN_SEQUENCE = 0]
    IN IF ~IsInt(total) THEN Raise(a, "ValueError", "", 0)
       ELSE LET b == set_param(a, "STSPL_TOTAL", int(total)) IN
            IF ~IsInt(first) THEN Raise(b, "ValueError", "", 0)
            ELSE set_param(b, "STSPL_START", int(first))

\* the call of the user callback initialise(msg)
INITIALISE_user(s, cb) ==
    IF "initialise" \in user
    THEN LET c == [s EXCEPT !.cbn = @ + 1, !.resched = cb.resched] IN
         IF cb.raises THEN Raise(c, "UserError", "", 0)
         ELSE IF cb.ret # None THEN [c EXCEPT !.hret = cb.ret] ELSE c
    ELSE s

\* the bug of setting INITIALISED although a reschedule is pending
INITIALISE_end_early(s, msg) ==
    IF msg.reason = "KICK" THEN Raise(s, "RTSDC__GERROR", "", 0)
    ELSE Return(set_param(s, "INITIALISED", 1), s.hret)

\* INITIALISE from the kick test to the end
INITIALISE_end(s, msg) ==
    IF msg.reason = "KICK" THEN Raise(s, "RTSDC__GERROR", "", 0)
    ELSE IF s.resched THEN Return(s, None)
    ELSE Return(set_param(s, "INITIALISED", 1), s.hret)

INITIALISE_run(s0, msg, cb) ==
    LET s1 == IF msg.reason = "OBEY" THEN INITIALISE_obey(s0, msg) ELSE s0
        s2 == IF Over(s1) THEN s1 ELSE INITIALISE_user(s1, cb)
        s3 == IF Over(s2) THEN s2 ELSE INITIALISE_end(s2, msg)
    IN s3

(***************************************************************************)
(* CONFIGURE                                                               *)
(***************************************************************************)
\* CONFIGURE_ARGS: int() of CONFIGURE_ID and ENGIN_MODE
CONFIGURE_ARGS_ok(kw) ==
    IsInt(Get(kw, "CONFIGURE_ID", "1")) /\ IsInt(Get(kw, "ENGIN_MODE", "0"))

\* the bug of starting CONFIGURE while a sequence is running
CONFIGURE_obey_in_sequence(s, msg) ==
    IF s.par.INITIALISED = 0 THEN Raise(s, "RTSDC__NOT_INITIALISED", "", 0)
    ELSE IF ~CONFIGURE_ARGS_ok(msg.kw) THEN Raise(s, "ValueError", "", 0)
    ELSE LET a == [s EXCEPT !.hret = None, !.par.CONFIGURED = 0,
                            !.par.CONFIGURE_ID = -1, !.par.TASKS = ""]
         IN IF Get(msg.kw, "CONFIGURATION", "") = "bad.xml"
            THEN Raise(a, "BadStatus", "", 0)
            ELSE [a EXCEPT !.tw = TaskWaiter("CONFIGURE_ID",
                                     int(Get(msg.kw, "CONFIGURE_ID", "1")), BadVal)]

\* CONFIGURE, the REA_OBEY block; drama.obj_from_xml raises on "bad.xml"
CONFIGURE_obey(s, msg) ==
    IF s.par.INITIALISED = 0 THEN Raise(s, "RTSDC__NOT_INITIALISED", "", 0)
    ELSE IF s.par.IN_SEQUENCE # 0
    THEN Raise(s, "RTSDC__ACTION_WHILE_SEQ_ACTIVE", "", 0)
    ELSE IF ~CONFIGURE_ARGS_ok(msg.kw) THEN Raise(s, "ValueError", "", 0)
    ELSE LET a == [s EXCEPT !.hret = None, !.par.CONFIGURED = 0,
                            !.par.CONFIGURE_ID = -1, !.par.TASKS = ""]
         IN IF Get(msg.kw, "CONFIGURATION", "") = "bad.xml"
            THEN Raise(a, "BadStatus", "", 0)
            ELSE [a EXCEPT !.tw = TaskWaiter("CONFIGURE_ID",
                                     int(Get(msg.kw, "CONFIGURE_ID", "1")), BadVal)]

\* the bug of handing the callback the done_set itself
cohort_user_nocopy(s, name, cb) ==
    IF name \in user
    THEN LET c == [s EXCEPT !.cbn = @ + 1, !.resched = cb.resched,
                            !.dsc_out = cb.dsc,
                            !.tw.wait_set = cb.ws, !.tw.done_set = cb.dsc]
         IN IF cb.raises THEN Raise(c, "UserError", "", 0)
            ELSE IF cb.ret # None THEN [c EXCEPT !.hret = cb.ret] ELSE c
    ELSE s

\* CONFIGURE / SETUP_SEQUENCE: the call of the user callback
\* configure(msg, tw.wait_set, dsc) with dsc a copy of tw.done_set, and the
\* merge of dsc into tw.done_set when it returns
\* the bug of caching whatever the callback returns, None included
cohort_user_overwrites(s, name, cb) ==
    IF name \in user
    THEN LET c == [s EXCEPT !.cbn = @ + 1, !.resched = cb.resched,
                            !.dsc_out = cb.dsc,
                            !.tw.wait_set = cb.ws]
         IN IF cb.raises THEN Raise(c, "UserError", "", 0)
            ELSE [c EXCEPT !.hret = cb.ret, !.tw.done_set = @ \cup cb.dsc]
    ELSE s

cohort_user(s, name, cb) ==
    IF name \in user
    THEN LET c == [s EXCEPT !.cbn = @ + 1, !.resched = cb.resched,
                            !.dsc_out = cb.dsc,
                            !.tw.wait_set = cb.ws]
         IN IF cb.raises THEN Raise(c, "UserError", "", 0)
            ELSE LET d == IF cb.ret # None THEN [c EXCEPT !.hret = cb.ret] ELSE c
                 IN [d EXCEPT !.tw.done_set = @ \cup cb.dsc]
    ELSE s

\* the bug of publishing id and flag before the outstanding tasks are looked at
cohort_end_unsettled(s, msg, monok, id, flag) ==
    IF msg.reason = "KICK" THEN Raise(s, "RTSDC__GERROR", "", 0)
    ELSE LET m == start_monitors(s, monok) IN
         IF Failed(m) THEN m
         ELSE IF m.resched THEN Return(m, None)
         ELSE LET w == [m EXCEPT !.waiting = IF waiting(m.tw) THEN "True" ELSE "False"]
                  d == set_param(set_param(w, id, w.tw.matchval), flag, 1)
              IN IF waiting(m.tw)
                 THEN Return([Call(d, "drama.reschedule", "", None)
                                 EXCEPT !.resched = TRUE], None)
                 ELSE Return(d, w.hret)

\* the bug of ending the entry with tasks outstanding and no reschedule
cohort_end_no_reschedule(s, msg, monok, id, flag) ==
    IF msg.reason = "KICK" THEN Raise(s, "RTSDC__GERROR", "", 0)
    ELSE LET m == start_monitors(s, monok) IN
         IF Failed(m) THEN m
         ELSE IF m.resched THEN Return(m, None)
         ELSE LET w == [m EXCEPT !.waiting = IF waiting(m.tw) THEN "True" ELSE "False"]
              IN IF waiting(m.tw)
                 THEN Return(w, None)
                 ELSE Return(set_param(set_param(w, id, w.tw.matchval), flag, 1),
                             w.hret)

\* CONFIGURE / SETUP_SEQUENCE from the kick test to the end: id and flag are the
\* parameters published on completion
cohort_end(s, msg, monok, id, flag) ==
    IF msg.reason = "KICK" THEN Raise(s, "RTSDC__GERROR", "", 0)
    ELSE LET m == start_monitors(s, monok) IN
         IF Failed(m) THEN m
         ELSE IF m.resched THEN Return(m, None)
         ELSE LET w == [m EXCEPT !.waiting = IF waiting(m.tw) THEN "True" ELSE "False"]
              IN IF waiting(m.tw)
                 THEN Return([Call(w, "drama.reschedule", "", None)
                                 EXCEPT !.resched = TRUE], None)
                 ELSE Return(set_param(set_param(w, id, w.tw.matchval), flag, 1),
                             w.hret)

\* the bug of an except clause that lets the exception pass without the sentinel
cohort_except_missing(s, id) == s

\* the bug of an except clause that restores the id of a command in progress
cohort_except_in_progress(s, id) == IF Failed(s) THEN set_param(s, id, -1) ELSE s

\* the except clause of CONFIGURE / SETUP_SEQUENCE
cohort_except(s, id) == IF Failed(s) THEN set_param(s, id, BadVal) ELSE s

\* CONFIGURE up to the call of the user callback
CONFIGURE_begin(s0, msg) ==
    LET s1 == IF msg.reason = "OBEY" THEN CONFIGURE_obey(s0, msg) ELSE s0
    IN IF Over(s1) THEN s1 ELSE check_monitors(s1, msg)

CONFIGURE_run(s0, msg, cb, monok) ==
    LET s2 == CONFIGURE_begin(s0, msg)
        s3 == IF Over(s2) THEN s2 ELSE cohort_user(s2, "configure", cb)
        s4 == IF Over(s3) THEN s3
              ELSE cohort_end(s3, msg, monok, "CONFIGURE_ID", "CONFIGURED")
    IN cohort_except(s4, "CONFIGURE_ID")

(***************************************************************************)
(* SETUP_SEQUENCE                                                          *)
(***************************************************************************)
\* SETUP_SEQUENCE_ARGS: int() of SETUP_SEQ_ID, then the keyword parameters that
\* are present are stored (TASKS, the one the TaskWaiter reads)
SETUP_SEQUENCE_ARGS(s, kw) ==
    IF ~IsInt(Get(kw, "SETUP_SEQ_ID", "1")) THEN Raise(s, "ValueError", "", 0)
    ELSE IF "TASKS" \in DOMAIN kw THEN set_param(s, "TASKS", kw["TASKS"])
    ELSE s

\* SETUP_SEQUENCE, the REA_OBEY block
SETUP_SEQUENCE_obey(s, msg) ==
    IF s.par.INITIALISED = 0 THEN Raise(s, "RTSDC__NOT_INITIALISED", "", 0)
    ELSE IF s.par.CONFIGURED = 0 THEN Raise(s, "RTSDC__NOT_CONFIGURED", "", 0)
    ELSE IF s.par.IN_SEQUENCE # 0
    THEN Raise(s, "RTSDC__ACTION_WHILE_SEQ_ACTIVE", "", 0)
    ELSE LET a == SETUP_SEQUENCE_ARGS(s, msg.kw) IN
         IF Failed(a) THEN a
         ELSE [a EXCEPT !.hret = None, !.par.SETUP = 0, !.par.SETUP_SEQ_ID = -1,
                        !.tw = TaskWaiter("SETUP_SEQ_ID",
                                   int(Get(msg.kw, "SETUP_SEQ_ID", "1")), BadVal)]

\* SETUP_SEQUENCE up to the call of the user callback
SETUP_SEQUENCE_begin(s0, msg) ==
    LET s1 == IF msg.reason = "OBEY" THEN SETUP_SEQUENCE_obey(s0, msg) ELSE s0
    IN IF Over(s1) THEN s1 ELSE check_monitors(s1, msg)

SETUP_SEQUENCE_run(s0, msg, cb, monok) ==
    LET s2 == SETUP_SEQUENCE_begin(s0, msg)
        s3 == IF Over(s2) THEN s2 ELSE cohort_user(s2, "setup_sequence", cb)
        s4 == IF Over(s3) THEN s3
              ELSE cohort_end(s3, msg, monok, "SETUP_SEQ_ID", "SETUP")
    IN cohort_except(s4, "SETUP_SEQ_ID")

(***************************************************************************)
(* SEQUENCE                                                                *)
(***************************************************************************)
Min(a, b) == IF a < b THEN a ELSE b

\* the bug of a first publish boundary one frame late
first_publish_late(first, last, total, offset) ==
    Min(first + total + offset, last)

\* the first publish boundary
first_publish(first, last, total, offset) ==
    Min(first + total + offset - 1, last)

\* SEQUENCE_ARGS: int() of START, END and DWELL
SEQUENCE_ARGS_ok(kw) ==
    /\ IsInt(Get(kw, "START", "1"))
    /\ IsInt(Get(kw, "END", "1"))
    /\ IsInt(Get(kw, "DWELL", "1"))

\* SEQUENCE, the REA_OBEY block
SEQUENCE_obey(s, msg, monok) ==
    IF s.par.INITIALISED = 0 THEN Raise(s, "RTSDC__NOT_INITIALISED", "", 0)
    ELSE IF s.par.CONFIGURED = 0 THEN Raise(s, "RTSDC__NOT_CONFIGURED", "", 0)
    ELSE IF s.par.SETUP = 0 THEN Raise(s, "RTSDC__NOT_SETUP", "", 0)
    ELSE IF ~SEQUENCE_ARGS_ok(msg.kw) THEN Raise(s, "ValueError", "", 0)
    ELSE LET first == int(Get(msg.kw, "START", "1"))
             last == int(Get(msg.kw, "END", "1"))
             bound == first_publish(first, last, s.par.STSPL_TOTAL,
                                    s.par.STSPL_START)
             a == [s EXCEPT !.q.start = first, !.q.end = last, !.hret = None,
                            !.par.IN_SEQUENCE = 0, !.par.STSPL_BUFFCOUNT = 0,
                            !.par.STSPL_INDEX = 1,
                            !.q.stspl_total = s.par.STSPL_TOTAL,
                            !.q.stspl_start = s.par.STSPL_START,
                            !.q.stspl_publish = bound,
                            !.par.STSPL_PUBLISH = bound]
             b == Call(a, "drama.monitor", "RTS", None)
         IN IF ~monok THEN Raise(b, "BadStatus", "RTS", 0)
            ELSE [b EXCEPT !.q.transid = 1, !.q.state = <<>>, !.q.i = first - 1]

\* the call of the user callback sequence(msg), and the reschedule after it
SEQUENCE_user(s, cb) ==
    LET c == IF "sequence" \in user
             THEN LET d == [s EXCEPT !.cbn = @ + 1, !.resched = cb.resched] IN
                  IF cb.raises THEN Raise(d, "UserError", "", 0)
                  ELSE IF cb.ret # None THEN [d EXCEPT !.hret = cb.ret] ELSE d
             ELSE s
    IN IF Failed(c) \/ c.resched THEN c
       ELSE [Call(c, "drama.reschedule", "", None) EXCEPT !.resched = TRUE]

\* the bug of publishing without moving the boundary on
publish_stuck(s, bcb) ==
    LET a == IF "sequence_batch" \in user
             THEN IF bcb = "raise" THEN Raise(s, "UserError", "", 0)
                  ELSE IF bcb = "shorten"
                  THEN [s EXCEPT !.q.state = <<@[Len(@)]>>]
                  ELSE s
             ELSE s
    IN IF Failed(a) THEN a
       ELSE [a EXCEPT !.par.STATE_ = a.q.state,
                      !.q.pubs = Append(@, [at |-> s.q.i, n |-> Len(s.q.state)]),
                      !.q.state = <<>>,
                      !.par.STSPL_INDEX = 1,
                      !.par.STSPL_PUBLISH = a.q.stspl_publish,
                      !.par.STSPL_BUFFCOUNT = @ + 1]

\* the bug of publishing the batch without emptying it
publish_keeps_batch(s, bcb) ==
    LET n == Min(s.q.stspl_publish + s.q.stspl_total, s.q.end)
        m == [s EXCEPT !.q.stspl_publish = n]
        a == IF "sequence_batch" \in user
             THEN IF bcb = "raise" THEN Raise(m, "UserError", "", 0)
                  ELSE IF bcb = "shorten"
                  THEN [m EXCEPT !.q.state = <<@[Len(@)]>>]
                  ELSE m
             ELSE m
    IN IF Failed(a) THEN a
       ELSE [a EXCEPT !.par.STATE_ = a.q.state,
                      !.q.pubs = Append(@, [at |-> s.q.i, n |-> Len(s.q.state)]),
                      !.par.STSPL_INDEX = 1,
                      !.par.STSPL_PUBLISH = n,
                      !.par.STSPL_BUFFCOUNT = @ + 1]

\* the frame loop at a publish boundary: the boundary moves on by STSPL_TOTAL,
\* the user callback sequence_batch may replace the batch (bcb "shorten": by its
\* last frame alone) or raise, the batch is published as STATE and emptied
publish(s, bcb) ==
    LET n == Min(s.q.stspl_publish + s.q.stspl_total, s.q.end)
        m == [s EXCEPT !.q.stspl_publish = n]
        a == IF "sequence_batch" \in user
             THEN IF bcb = "raise" THEN Raise(m, "UserError", "", 0)
                  ELSE IF bcb = "shorten"
                  THEN [m EXCEPT !.q.state = <<@[Len(@)]>>]
                  ELSE m
             ELSE m
    IN IF Failed(a) THEN a
       ELSE [a EXCEPT !.par.STATE_ = a.q.state,
                      !.q.pubs = Append(@, [at |-> s.q.i, n |-> Len(s.q.state)]),
                      !.q.state = <<>>,
                      !.par.STSPL_INDEX = 1,
                      !.par.STSPL_PUBLISH = n,
                      !.par.STSPL_BUFFCOUNT = @ + 1]

\* the bug of a continuity check that is not made
frame_unchecked(s, number, fcb, bcb) ==
    LET a == [s EXCEPT !.q.i = @ + 1]
        c == IF a.q.i = a.q.end
             THEN Call(a, "drama.cancel", "RTS", a.q.monid) ELSE a
    IN IF "sequence_frame" \in user /\ fcb = "raise"
       THEN Raise(c, "UserError", "", 0)
       ELSE LET d == [c EXCEPT !.q.state = Append(@, c.q.i), !.fn = @ + 1] IN
            IF d.q.i = d.q.stspl_publish THEN publish(d, bcb)
            ELSE [d EXCEPT !.par.STSPL_INDEX = @ + 1]

\* the body of the frame loop for the frame rts_frame with NUMBER number; the
\* user callback sequence_frame keeps the frame's NUMBER or raises (fcb)
\* the bug of cancelling the monitor at every frame from end on
frame_cancel_from_end(s, number, fcb, bcb) ==
    LET a == [s EXCEPT !.q.i = @ + 1] IN
    IF a.q.i # number THEN Raise(a, "RTSDC__GERROR", "", number)
    ELSE LET c == IF a.q.i >= a.q.end
                  THEN Call(a, "drama.cancel", "RTS", a.q.monid) ELSE a
         IN IF "sequence_frame" \in user /\ fcb = "raise"
            THEN Raise(c, "UserError", "", 0)
            ELSE LET d == [c EXCEPT !.q.state = Append(@, c.q.i), !.fn = @ + 1] IN
                 IF d.q.i = d.q.stspl_publish THEN publish(d, bcb)
                 ELSE [d EXCEPT !.par.STSPL_INDEX = @ + 1]

frame(s, number, fcb, bcb) ==
    LET a == [s EXCEPT !.q.i = @ + 1] IN
    IF a.q.i # number THEN Raise(a, "RTSDC__GERROR", "", number)
    ELSE LET c == IF a.q.i = a.q.end
                  THEN Call(a, "drama.cancel", "RTS", a.q.monid) ELSE a
         IN IF "sequence_frame" \in user /\ fcb = "raise"
            THEN Raise(c, "UserError", "", 0)
            ELSE LET d == [c EXCEPT !.q.state = Append(@, c.q.i), !.fn = @ + 1] IN
                 IF d.q.i = d.q.stspl_publish THEN publish(d, bcb)
                 ELSE [d EXCEPT !.par.STSPL_INDEX = @ + 1]

\* for rts_frame in rts_state
RECURSIVE frames(_, _, _, _)
frames(s, rts_state, fcb, bcb) ==
    IF rts_state = <<>> \/ Failed(s) THEN s
    ELSE frames(frame(s, Head(rts_state), fcb, bcb), Tail(rts_state), fcb, bcb)

\* SEQUENCE, the REA_TRIGGER block
\* the bug of processing the frames of the notification that starts the sequence
SEQUENCE_trigger_no_skip(s, msg, fcb, bcb) ==
    IF msg.reason = "TRIGGER" /\ msg.transid = s.q.transid
    THEN IF msg.status = "MON_STARTED" THEN [s EXCEPT !.q.monid = msg.mid]
         ELSE IF msg.status = "MON_CHANGED"
         THEN IF s.par.IN_SEQUENCE = 0
              THEN frames([s EXCEPT !.par.IN_SEQUENCE = 1,
                                    !.par.SEQUENCE_ID = s.q.start],
                          msg.frames, fcb, bcb)
              ELSE frames(s, msg.frames, fcb, bcb)
         ELSE s
    ELSE s

SEQUENCE_trigger(s, msg, fcb, bcb) ==
    IF msg.reason = "TRIGGER" /\ msg.transid = s.q.transid
    THEN IF msg.status = "MON_STARTED" THEN [s EXCEPT !.q.monid = msg.mid]
         ELSE IF msg.status = "MON_CHANGED"
         THEN IF s.par.IN_SEQUENCE = 0
              THEN [s EXCEPT !.par.IN_SEQUENCE = 1, !.par.SEQUENCE_ID = s.q.start]
              ELSE frames(s, msg.frames, fcb, bcb)
         ELSE s
    ELSE s

\* the bug of returning from a kick entry as from any other
SEQUENCE_end_kick_returns(s, msg) ==
    IF msg.reason = "COMPLETE" /\ msg.transid = s.q.transid
    THEN Return([Call(s, "drama.reschedule(False)", "", None)
                    EXCEPT !.resched = FALSE, !.par.IN_SEQUENCE = 0,
                           !.par.SEQUENCE_ID = -1], s.hret)
    ELSE Return(s, None)

\* SEQUENCE from the REA_COMPLETE test to the end of the try block
\* the bug of a COMPLETE that leaves the reschedule request standing
SEQUENCE_end_still_rescheduled(s, msg) ==
    IF msg.reason = "COMPLETE" /\ msg.transid = s.q.transid
    THEN Return([s EXCEPT !.par.IN_SEQUENCE = 0, !.par.SEQUENCE_ID = -1], s.hret)
    ELSE IF msg.reason = "KICK" THEN Raise(s, "RTSDC__GERROR", "", 0)
    ELSE Return(s, None)

SEQUENCE_end(s, msg) ==
    IF msg.reason = "COMPLETE" /\ msg.transid = s.q.transid
    THEN Return([Call(s, "drama.reschedule(False)", "", None)
                    EXCEPT !.resched = FALSE, !.par.IN_SEQUENCE = 0,
                           !.par.SEQUENCE_ID = -1], s.hret)
    ELSE IF msg.reason = "KICK" THEN Raise(s, "RTSDC__GERROR", "", 0)
    ELSE Return(s, None)

\* the except clause of SEQUENCE; it reads SEQUENCE.start, which does not exist
\* before the first start that got as far as the arguments
SEQUENCE_except(s) ==
    IF ~Failed(s) THEN s
    ELSE IF s.q.start = None THEN Raise(s, "AttributeError", "", 0)
    ELSE [Call(s, "set_param SEQUENCE_ID", "", s.q.start)
             EXCEPT !.par.IN_SEQUENCE = 0, !.par.SEQUENCE_ID = -1]

SEQUENCE_run(s0, msg, cb, fcb, bcb, monok) ==
    LET s1 == IF msg.reason = "OBEY" THEN SEQUENCE_obey(s0, msg, monok) ELSE s0
        s2 == IF Over(s1) THEN s1 ELSE SEQUENCE_user(s1, cb)
        s3 == IF Over(s2) THEN s2 ELSE SEQUENCE_trigger(s2, msg, fcb, bcb)
        s4 == IF Over(s3) THEN s3 ELSE SEQUENCE_end(s3, msg)
    IN SEQUENCE_except(s4)

\* the fields of the monitor that handle() reads, kept from before the last call
Fields(m) ==
    [tid |-> m.tid, mid |-> m.mid, connected |-> m.connected,
     resched_count |-> m.resched_count]

HasCall(m, op) == \E i \in DOMAIN m.calls : m.calls[i].op = op

\* nothing handled yet
NoHistory ==
    [prev |-> "", since_sub |-> None, since_trig |-> None, since_died |-> None,
     resub_at |-> None, acked |-> FALSE]

\* a count of RESCHED messages, kept up to 2
Tick(n) == IF n = None THEN None ELSE IF n < 2 THEN n + 1 ELSE n

\* history of the calls of handle(): prev is the reason of the message before
\* rm_msg; since_sub counts the RESCHED messages handled since the last call of
\* drama.monitor, since_trig those since the last TRIGGER of the monitor's own
\* transaction (None: there was none yet); since_died counts the RESCHED
\* messages handled since a DIED or MESREJECTED of the monitor's own transaction
\* with no other message since (None otherwise), and resub_at is the first of
\* them at which drama.monitor was called (None: at none so far); acked: the
\* MON_STARTED of the transaction now outstanding has been handled, which only
\* HandleInOrder keeps track of (see Acked)
RMHistory(h, pre, msg, post) ==
    [prev |-> rm_msg.reason,
     since_sub |-> IF HasCall(post, "drama.monitor") THEN 0
                   ELSE IF msg.reason = "RESCHED" THEN Tick(h.since_sub)
                   ELSE h.since_sub,
     since_trig |-> IF msg.reason = "TRIGGER" /\ msg.transid = pre.tid THEN 0
                    ELSE IF msg.reason = "RESCHED" THEN Tick(h.since_trig)
                    ELSE h.since_trig,
     since_died |-> IF msg.reason \in {"DIED", "MESREJECTED"} /\ msg.transid = pre.tid
                    THEN 0
                    ELSE IF msg.reason = "RESCHED" THEN Tick(h.since_died)
                    ELSE None,
     resub_at |-> IF msg.reason = "RESCHED" /\ h.since_died # None
                  THEN IF h.resub_at # None THEN h.resub_at
                       ELSE IF HasCall(post, "drama.monitor") THEN h.since_died + 1
                       ELSE None
                  ELSE None,
     acked |-> h.acked]

(***************************************************************************)
(* The task: rts.init(), then DRAMA enters the actions one message at a    *)
(* time.  An action is entered with REA_OBEY only while it is not active,  *)
(* and with any other reason only while it is active; it stays active when *)
(* an entry returns with a reschedule requested.                           *)
(***************************************************************************)
\* what an action keeps between the entries of one activation
Idle == [active |-> FALSE, tw |-> NoTW, ret |-> None]

Leave(s) ==
    IF ~Failed(s) /\ s.resched
    THEN [active |-> TRUE, tw |-> s.tw, ret |-> s.hret]
    ELSE Idle

\* SEQUENCE after an entry: of an activation that has ended only the attributes
\* that a later activation can read before it assigns them are kept
SeqLeave(s, msg) ==
    IF ~Failed(s) /\ s.resched
    THEN [s.q EXCEPT !.active = TRUE, !.ret = s.hret,
                     !.acked = @ \/ (/\ msg.reason = "TRIGGER"
                                     /\ msg.transid = s.q.transid
                                     /\ msg.status = "MON_STARTED"),
                     !.notified = @ \/ (/\ msg.reason = "TRIGGER"
                                        /\ msg.transid = s.q.transid
                                        /\ msg.status = "MON_CHANGED")]
    ELSE [NoSeq EXCEPT !.start = s.q.start, !.monid = s.q.monid]

\* the record of an entry: result is "error" when an exception left the action,
\* "resched" when it returned with a reschedule requested, "done" when it
\* returned without and the activation ended
Log(action, msg, s) ==
    [action |-> action, msg |-> msg,
     result |-> IF Failed(s) THEN "error" ELSE IF s.resched THEN "resched" ELSE "done",
     exc |-> s.exc, retval |-> s.retval, calls |-> s.calls, cbn |-> s.cbn,
     dsc_out |-> s.dsc_out, waiting |-> s.waiting, tw |-> s.tw, q |-> s.q,
     fn |-> s.fn]

NoLog == Log("", NoEntry, Entry(InitParams, NoTW, None))

\* the values a watched task may publish as its CONFIGURE_ID / SETUP_SEQ_ID: -1
\* at the start of its command, the target at its completion, -9999 on an error
Vals == {-1, 5, BadVal}

Plain(reason) == Msg(reason, 0, "", NoKw, None, 0)

Obeys(V) == {Msg("OBEY", 0, "", kw, None, 0) : kw \in Kwargs(V)}

\* the OBEY with the keyword arguments kw
Obey(kw) == Msg("OBEY", 0, "", kw, None, 0)

InitialiseArgs == [STSPL_TOTAL |-> {"x"}]

\* the ways CONFIGURE is commanded
ConfigureObeys ==
    {Obey([CONFIGURE_ID |-> "5"]), Obey([CONFIGURE_ID |-> "x"]),
     Obey([CONFIGURE_ID |-> "5", CONFIGURATION |-> "bad.xml"])}

\* the ways SETUP_SEQUENCE is commanded
SetupSequenceObeys ==
    {Obey([SETUP_SEQ_ID |-> "5"]), Obey([SETUP_SEQ_ID |-> "x"]),
     Obey([SETUP_SEQ_ID |-> "5", TASKS |-> "B"])}

SequenceArgs == [START |-> {"2"}, END |-> {"10", "x"}]

\* the MONITOR_ID the watched task gives the monitor of transaction t
MonitorId(t) == 10 + t

\* no action is active
AllIdle == ~ini.active /\ ~cfg.active /\ ~sus.active /\ ~seq.active

\* the commanding task sends an OBEY only when every action has ended (alone),
\* or at any time
MayEnter(msg, alone) == (alone /\ msg.reason = "OBEY") => AllIdle

InitialiseMessages ==
    IF ~ini.active THEN Obeys(InitialiseArgs)
    ELSE {Plain("KICK"), Plain("RESCHED")}

\* the messages DRAMA may deliver to CONFIGURE / SETUP_SEQUENCE: for each
\* monitor transaction the acknowledgement (MON_STARTED) comes before any
\* MON_CHANGED, or the watched task cannot be reached and MESREJECTED comes
\* instead; transaction 0 stands for one the TaskWaiter did not start
CohortMessages(c, obeys) ==
    IF ~c.active THEN obeys
    ELSE LET d == c.tw.transid_dict IN
         {Plain("KICK"), Plain("RESCHED")}
         \cup {Msg("TRIGGER", t, "MON_STARTED", NoKw, MonitorId(t), 0) :
                  t \in {x \in DOMAIN d : d[x].mid = None}}
         \cup {Msg("MESREJECTED", t, "", NoKw, None, 0) :
                  t \in {x \in DOMAIN d : d[x].mid = None}}
         \cup {Msg("TRIGGER", t, "MON_CHANGED", NoKw, None, v) :
                  t \in {x \in DOMAIN d : d[x].mid # None}, v \in Vals}
         \cup {Msg("TRIGGER", 0, "MON_CHANGED", NoKw, None, BadVal)}

\* the sum of the first k steps of d
RECURSIVE Sum(_, _)
Sum(d, k) == IF k = 0 THEN 0 ELSE d[k] + Sum(d, k - 1)

\* the frame NUMBERs one MON_CHANGED of RTS.STATE may carry when the counter is
\* i: up to MaxFrames frames with rising NUMBERs, each the one that follows the
\* frame before it (step 1) or the one after that (step 2, a frame was lost)
FrameLists(i) ==
    IF i > seq.end + MaxOver THEN {<<>>}
    ELSE {[k \in DOMAIN d |-> i + Sum(d, k)] :
             d \in UNION {[1..n -> {1, 2}] : n \in 0..MaxFrames}}

\* the messages DRAMA may deliver to SEQUENCE
SequenceMessages ==
    IF ~seq.active
    THEN IF par.STSPL_BUFFCOUNT <= MaxBatches THEN Obeys(SequenceArgs) ELSE {}
    ELSE {Plain("KICK"), Plain("RESCHED"), StateMsg(0, <<seq.i + 1>>)}
         \cup (IF ~seq.acked
               THEN {Msg("TRIGGER", seq.transid, "MON_STARTED", NoKw,
                         MonitorId(seq.transid), 0)}
               ELSE {StateMsg(seq.transid, f) : f \in FrameLists(seq.i)}
                    \cup {Msg("COMPLETE", seq.transid, "", NoKw, None, 0)})

\* whether drama.monitor succeeds, in an entry of a TaskWaiter's action that may
\* call it: one that reaches start_monitors with an unmonitored task in wait_set
MonitorOutcomes(msg, s, cb) ==
    IF /\ ~Over(s)
       /\ msg.reason # "KICK"
       /\ ~cb.raises
       /\ cb.ws \ Monitored(s.tw) # {}
    THEN BOOLEAN
    ELSE {TRUE}

\* what the user callback may do in the entry that has come to its call in s
CohortCalls(name, msg, s) ==
    IF name \notin user \/ Over(s) THEN {[NoCb EXCEPT !.ws = s.tw.wait_set]}
    ELSE IF msg.reason = "KICK"
    THEN {c \in CohortCallbacks(s.tw) : c.dsc = s.tw.done_set}
    ELSE CohortCallbacks(s.tw)

\* task B not looked at: its parameters, its CONFIGURE, the outcome of its
\* last entry of CONFIGURE; open is whether this task's monitor on B's
\* CONFIGURE_ID exists, note the values B's task has sent for it that this task
\* has not received yet
\* the user callback has returned nothing in this activation: val is the last
\* value other than None it returned, age the entries since (2: two or more)
NoReturn == [val |-> None, age |-> 0]

NoPeer ==
    [par |-> InitParams, cfg |-> Idle, result |-> "", exc |-> NoErr,
     open |-> FALSE, note |-> <<>>]

RTSInit ==
    /\ peer = NoPeer
    /\ returned = NoReturn
    /\ user \in {{}, AllCallbacks}
    /\ par = InitParams
    /\ ini = Idle
    /\ cfg = Idle
    /\ sus = Idle
    /\ seq = NoSeq
    /\ ev = NoLog

\* one entry of INITIALISE
INITIALISE(alone) ==
    \E msg \in InitialiseMessages :
      \E cb \in IF "initialise" \in user THEN PlainCallbacks({None}) ELSE {NoCb} :
        LET s0 == Entry(par, NoTW, ini.ret)
            s == INITIALISE_run(s0, msg, cb)
        IN /\ MayEnter(msg, alone)
           /\ par' = s.par
           /\ ini' = Leave(s)
           /\ ev' = Log("INITIALISE", msg, s)
           /\ UNCHANGED <<user, cfg, sus, seq>>
           /\ UNCHANGED rmvars

\* one entry of CONFIGURE
CONFIGURE(alone) ==
    \E msg \in CohortMessages(cfg, ConfigureObeys) :
      LET s0 == Entry(par, cfg.tw, cfg.ret) IN
      \E cb \in CohortCalls("configure", msg, CONFIGURE_begin(s0, msg)) :
        \E monok \in MonitorOutcomes(msg, CONFIGURE_begin(s0, msg), cb) :
          LET s == CONFIGURE_run(s0, msg, cb, monok) IN
          /\ MayEnter(msg, alone)
          /\ par' = s.par
          /\ cfg' = Leave(s)
          /\ ev' = Log("CONFIGURE", msg, s)
          /\ UNCHANGED <<user, ini, sus, seq>>
          /\ UNCHANGED rmvars

\* one entry of SETUP_SEQUENCE
SETUP_SEQUENCE(alone) ==
    \E msg \in CohortMessages(sus, SetupSequenceObeys) :
      LET s0 == Entry(par, sus.tw, sus.ret) IN
      \E cb \in CohortCalls("setup_sequence", msg, SETUP_SEQUENCE_begin(s0, msg)) :
        \E monok \in MonitorOutcomes(msg, SETUP_SEQUENCE_begin(s0, msg), cb) :
          LET s == SETUP_SEQUENCE_run(s0, msg, cb, monok) IN
          /\ MayEnter(msg, alone)
          /\ par' = s.par
          /\ sus' = Leave(s)
          /\ ev' = Log("SETUP_SEQUENCE", msg, s)
          /\ UNCHANGED <<user, ini, cfg, seq>>
          /\ UNCHANGED rmvars

\* one entry of SEQUENCE
SEQUENCE(alone) ==
    \E msg \in SequenceMessages :
      LET s0 == SeqEntry(par, seq) IN
      \E u \in IF user = {} THEN {[cb |-> NoCb, frame |-> "keep", batch |-> "keep"]}
               ELSE IF msg.frames = <<>>
               THEN {c \in SequenceCallbacks : c.frame = "keep" /\ c.batch = "keep"}
               ELSE SequenceCallbacks :
        \E monok \in IF msg.reason = "OBEY" THEN BOOLEAN ELSE {TRUE} :
          LET s == SEQUENCE_run(s0, msg, u.cb, u.frame, u.batch, monok) IN
          /\ MayEnter(msg, alone)
          /\ par' = s.par
          /\ seq' = SeqLeave(s, msg)
          /\ ev' = Log("SEQUENCE", msg, s)
          /\ UNCHANGED <<user, ini, cfg, sus>>
          /\ UNCHANGED rmvars

RMInit ==
    /\ RTSInit
    /\ user = {}
    /\ rm = RetryMonitor
    /\ rm_msg = NoMsg
    /\ rm_pre = Fields(RetryMonitor)
    /\ rm_hist = NoHistory

\* the owner reassigns one handler slot after construction, before the first message
Customize ==
    /\ rm = RetryMonitor
    /\ rm_msg = NoMsg
    /\ \E slot \in {"on_kick", "on_resched", "on_orphan"}, h \in Handlers :
          /\ rm[slot] # h
          /\ rm' = [rm EXCEPT ![slot] = h]
    /\ UNCHANGED <<rm_msg, rm_pre, rm_hist>>
    /\ UNCHANGED rtsvars

\* what drama.monitor may give back if handle(msg) calls it: a transaction id,
\* or None when it raises BadStatus (which start() catches)
MonitorResults(self, msg) ==
    IF HasCall(handle(self, msg, 1, TRUE), "drama.monitor")
    THEN Tids \cup {None}
    ELSE {None}

\* one call of handle(msg) by the owning action
Handle ==
    \E msg \in RMMessages :
      \E t \in MonitorResults(rm, msg) :
        /\ msg.reason = "RESCHED" => rm.resched_count < MaxResched
        /\ rm' = handle(rm, msg, t, t # None)
        /\ rm_msg' = msg
        /\ rm_pre' = Fields(rm)
        /\ rm_hist' = RMHistory(rm_hist, rm, msg, rm')
        /\ UNCHANGED rtsvars

RMNext ==
    \/ Customize /\ UNCHANGED <<peer, returned>>
    \/ Handle /\ UNCHANGED <<peer, returned>>

SpecRM == RMInit /\ [][RMNext]_vars

NoRM ==
    /\ rm = RetryMonitor
    /\ rm_msg = NoMsg
    /\ rm_pre = Fields(RetryMonitor)
    /\ rm_hist = NoHistory

\* the task from rts.init() on, commanded through INITIALISE, CONFIGURE and
\* SETUP_SEQUENCE one command after the other
Init == RTSInit /\ NoRM

Next ==
    \/ INITIALISE(TRUE) /\ UNCHANGED <<peer, returned>>
    \/ CONFIGURE(TRUE) /\ UNCHANGED <<peer, returned>>
    \/ SETUP_SEQUENCE(TRUE) /\ UNCHANGED <<peer, returned>>

Spec == Init /\ [][Next]_vars

\* the parameters after INITIALISE with STSPL_TOTAL = total and STSPL_START =
\* first, CONFIGURE and SETUP_SEQUENCE have completed with their default ids
Ready(total, first) ==
    [InitParams EXCEPT !.INITIALISED = 1, !.CONFIGURED = 1, !.SETUP = 1,
                       !.CONFIGURE_ID = 1, !.SETUP_SEQ_ID = 1,
                       !.STSPL_TOTAL = total, !.STSPL_START = first]

\* the task commanded through SEQUENCE, from rts.init() or from a set-up task
SeqInit ==
    /\ NoRM
    /\ peer = NoPeer
    /\ returned = NoReturn
    /\ user \in {{}, AllCallbacks}
    /\ ini = Idle
    /\ cfg = Idle
    /\ sus = Idle
    /\ seq = NoSeq
    /\ ev = NoLog
    /\ par \in {InitParams}
               \cup {Ready(t, f) : t \in {0, 1, 4}, f \in {0, 1}}

SeqNext == SEQUENCE(TRUE) /\ UNCHANGED <<peer, returned>>

SpecSeq == SeqInit /\ [][SeqNext]_vars

\* an entry of the narrow environment: commands with default arguments, user
\* callbacks that leave done_set alone and wait_set too unless the entry is a
\* kick, drama.monitor succeeding,
\* RTS.STATE notifications of at most one frame, the one expected
Narrow(e) ==
    /\ e.msg.kw \in {NoKw, [CONFIGURE_ID |-> "5"], [SETUP_SEQ_ID |-> "5"]}
    /\ e.msg.reason # "KICK" => e.tw.wait_set = {}
    /\ e.dsc_out = {}
    /\ e.exc.code # "BadStatus"
    /\ e.msg.reason = "TRIGGER" =>
          /\ e.msg.transid # 0
          /\ Len(e.msg.frames) <= 1
          /\ e.exc.code # "RTSDC__GERROR"

\* the task from rts.init() on with all four actions, a command being sent at
\* any time, also while other actions are active; the environment is narrow
MixNext ==
    \/ INITIALISE(FALSE) /\ Narrow(ev') /\ UNCHANGED <<peer, returned>>
    \/ CONFIGURE(FALSE) /\ Narrow(ev') /\ UNCHANGED <<peer, returned>>
    \/ SETUP_SEQUENCE(FALSE) /\ Narrow(ev') /\ UNCHANGED <<peer, returned>>
    \/ SEQUENCE(FALSE) /\ Narrow(ev') /\ UNCHANGED <<peer, returned>>

SpecMix == Init /\ [][MixNext]_vars

(***************************************************************************)
(* Two tasks running the program: this task's CONFIGURE waits for task B,  *)
(* whose CONFIGURE_ID it monitors.  DRAMA sends the monitor the value the  *)
(* parameter has when the monitor is started and every value written to it *)
(* afterwards, in the order written.                                       *)
(***************************************************************************)
\* this task, initialised, and B, initialised or not
PeerInit ==
    /\ NoRM
    /\ user = AllCallbacks
    /\ par = [InitParams EXCEPT !.INITIALISED = 1]
    /\ ini = Idle
    /\ cfg = Idle
    /\ sus = Idle
    /\ seq = NoSeq
    /\ ev = NoLog
    /\ peer \in {NoPeer, [NoPeer EXCEPT !.par.INITIALISED = 1]}
    /\ returned = NoReturn

\* one entry of this task's CONFIGURE, which waits for no task but B: a
\* MON_CHANGED of the monitor on B carries the oldest value not yet received;
\* the monitor exists from the drama.monitor call until drama.cancel or the
\* end of the action
Watch ==
    /\ CONFIGURE(TRUE)
    /\ ev'.tw.wait_set \subseteq {"B"}
    /\ ev'.tw.done_set \subseteq {"B"}
    /\ ev'.msg.reason = "TRIGGER" => ev'.msg.transid # 0
    /\ ev'.msg.status = "MON_CHANGED" =>
          /\ peer.note # <<>>
          /\ ev'.msg.val = Head(peer.note)
    /\ LET started == HasCall(ev', "drama.monitor") /\ ev'.exc.code # "BadStatus"
           open == /\ cfg'.active
                   /\ ~HasCall(ev', "drama.cancel")
                   /\ peer.open \/ started
       IN peer' = [peer EXCEPT
                     !.open = open,
                     !.note = IF ~open THEN <<>>
                              ELSE IF started THEN <<peer.par.CONFIGURE_ID>>
                              ELSE IF ev'.msg.status = "MON_CHANGED" THEN Tail(@)
                              ELSE @]
    /\ UNCHANGED returned

\* one entry of B's CONFIGURE, which waits for no task but A; the entry writes
\* CONFIGURE_ID at its start, at its completion and in its except clause
PeerCONFIGURE ==
    /\ Len(peer.note) < MaxNotes
    /\ \E msg \in CohortMessages(peer.cfg, ConfigureObeys) :
         LET s0 == Entry(peer.par, peer.cfg.tw, peer.cfg.ret) IN
         \E cb \in CohortCalls("configure", msg, CONFIGURE_begin(s0, msg)) :
           LET s == CONFIGURE_run(s0, msg, cb, TRUE)
               e == Log("CONFIGURE", msg, s)
               wrote == msg.reason = "OBEY" \/ e.result # "resched"
           IN /\ s.tw.wait_set \subseteq {"A"}
              /\ s.tw.done_set \subseteq {"A"}
              /\ peer' = [par |-> s.par, cfg |-> Leave(s),
                          result |-> e.result, exc |-> e.exc,
                          open |-> peer.open,
                          note |-> IF peer.open /\ wrote
                                   THEN Append(peer.note, s.par.CONFIGURE_ID)
                                   ELSE peer.note]
    /\ UNCHANGED <<user, par, ini, cfg, sus, seq, ev, returned>>
    /\ UNCHANGED rmvars

PeerNext == Watch \/ PeerCONFIGURE

SpecPeer == PeerInit /\ [][PeerNext]_vars

(***************************************************************************)
(* RetryMonitor on a transport that delivers, for one transaction, the     *)
(* MON_STARTED once and before every MON_CHANGED.                          *)
(***************************************************************************)
AckFirst ==
    (rm_msg'.reason = "TRIGGER" /\ rm_msg'.transid = rm.tid) =>
        /\ rm_msg'.status = "MON_STARTED" => ~rm_hist.acked
        /\ rm_msg'.status = "MON_CHANGED" => rm_hist.acked

\* whether the MON_STARTED of the transaction outstanding after handle(msg) has
\* been handled: not yet after a new drama.monitor or with no transaction
Acked(h, pre, msg, post) ==
    IF HasCall(post, "drama.monitor") \/ post.tid = None THEN FALSE
    ELSE IF /\ msg.reason = "TRIGGER"
            /\ msg.status = "MON_STARTED"
            /\ msg.transid = pre.tid
    THEN TRUE
    ELSE h.acked

\* one call of handle() on that transport; of the history only acked is kept
HandleInOrder ==
    /\ \E msg \in RMMessages :
         \E t \in MonitorResults(rm, msg) :
           /\ msg.reason = "RESCHED" => rm.resched_count < MaxResched
           /\ rm' = handle(rm, msg, t, t # None)
           /\ rm_msg' = msg
           /\ rm_pre' = Fields(rm)
           /\ rm_hist' = [rm_hist EXCEPT !.acked = Acked(rm_hist, rm, msg, rm')]
           /\ UNCHANGED rtsvars
    /\ AckFirst

AckNext ==
    \/ Customize /\ UNCHANGED <<peer, returned>>
    \/ HandleInOrder /\ UNCHANGED <<peer, returned>>

SpecAck == RMInit /\ [][AckNext]_vars

(***************************************************************************)
(* The four actions one command at a time, with user callbacks that return *)
(* a value or None; returned records what the callback returned.           *)
(***************************************************************************)
\* the values a user callback returns
Rets == {None, 7, 8}

\* returned after an entry on msg in which the callback, if called, returned value
Returned(r, msg, called, value) ==
    IF called /\ value # None THEN [val |-> value, age |-> 0]
    ELSE IF msg.reason = "OBEY" THEN NoReturn
    ELSE IF r.val = None THEN r
    ELSE [r EXCEPT !.age = Tick(@)]

RetINITIALISE ==
    \E msg \in InitialiseMessages :
      \E cb \in PlainCallbacks(Rets) :
        LET s == INITIALISE_run(Entry(par, NoTW, ini.ret), msg, cb) IN
        /\ MayEnter(msg, TRUE)
        /\ par' = s.par
        /\ ini' = Leave(s)
        /\ ev' = Log("INITIALISE", msg, s)
        /\ returned' = Returned(returned, msg, s.cbn > 0, cb.ret)
        /\ UNCHANGED <<user, cfg, sus, seq, peer>>
        /\ UNCHANGED rmvars

\* the callbacks of a cohort action that leave done_set alone and wait for no
\* other task than A, each with every return value
RetCallbacks(name, msg, s) ==
    {[c EXCEPT !.ret = r] :
        c \in {x \in CohortCalls(name, msg, s) :
                  x.ws \subseteq {"A"} /\ x.dsc = s.tw.done_set /\ ~x.raises},
        r \in Rets}

RetCONFIGURE ==
    \E msg \in CohortMessages(cfg, ConfigureObeys) :
      LET s0 == Entry(par, cfg.tw, cfg.ret) IN
      \E cb \in RetCallbacks("configure", msg, CONFIGURE_begin(s0, msg)) :
        LET s == CONFIGURE_run(s0, msg, cb, TRUE) IN
        /\ MayEnter(msg, TRUE)
        /\ par' = s.par
        /\ cfg' = Leave(s)
        /\ ev' = Log("CONFIGURE", msg, s)
        /\ returned' = Returned(returned, msg, s.cbn > 0, cb.ret)
        /\ UNCHANGED <<user, ini, sus, seq, peer>>
        /\ UNCHANGED rmvars

RetSETUP_SEQUENCE ==
    \E msg \in CohortMessages(sus, SetupSequenceObeys) :
      LET s0 == Entry(par, sus.tw, sus.ret) IN
      \E cb \in RetCallbacks("setup_sequence", msg, SETUP_SEQUENCE_begin(s0, msg)) :
        LET s == SETUP_SEQUENCE_run(s0, msg, cb, TRUE) IN
        /\ MayEnter(msg, TRUE)
        /\ par' = s.par
        /\ sus' = Leave(s)
        /\ ev' = Log("SETUP_SEQUENCE", msg, s)
        /\ returned' = Returned(returned, msg, s.cbn > 0, cb.ret)
        /\ UNCHANGED <<user, ini, cfg, seq, peer>>
        /\ UNCHANGED rmvars

RetSEQUENCE ==
    \E msg \in {m \in SequenceMessages : m.kw = NoKw /\ Len(m.frames) <= 1} :
      \E cb \in PlainCallbacks(Rets) :
        LET s == SEQUENCE_run(SeqEntry(par, seq), msg, cb, "keep", "keep", TRUE) IN
        /\ MayEnter(msg, TRUE)
        /\ par' = s.par
        /\ seq' = SeqLeave(s, msg)
        /\ ev' = Log("SEQUENCE", msg, s)
        /\ returned' = Returned(returned, msg, s.cbn > 0, cb.ret)
        /\ UNCHANGED <<user, ini, cfg, sus, peer>>
        /\ UNCHANGED rmvars

RetInit == Init /\ user = AllCallbacks

RetNext == RetINITIALISE \/ RetCONFIGURE \/ RetSETUP_SEQUENCE \/ RetSEQUENCE

SpecRet == RetInit /\ [][RetNext]_vars


(***************************************************************************)
(* The components that cancel a monitor, each in a task of its own: a task *)
(* that registers no rts callback and drives a RetryMonitor, and a task    *)
(* with all the rts callbacks that is taken through INITIALISE, CONFIGURE, *)
(* SETUP_SEQUENCE and SEQUENCE.  For every monitor the acknowledgement is  *)
(* delivered before any change notification.                               *)
(***************************************************************************)
\* an entry of the calm environment: commands with default arguments or the id
\* 5, user callbacks that do not raise and leave done_set alone, drama.monitor
\* succeeding, notifications of the task's own monitors only, RTS.STATE
\* notifications of at most one frame
Calm(e) ==
    /\ e.msg.kw \in {NoKw, [CONFIGURE_ID |-> "5"], [SETUP_SEQ_ID |-> "5"]}
    /\ e.dsc_out = {}
    /\ e.exc.code \notin {"BadStatus", "UserError"}
    /\ e.msg.reason = "TRIGGER" =>
          /\ e.msg.transid # 0
          /\ Len(e.msg.frames) <= 1

CancelInit == RMInit \/ (Init /\ user = AllCallbacks)

CancelNext ==
    \/ user = {} /\ Customize /\ UNCHANGED <<peer, returned>>
    \/ user = {} /\ HandleInOrder /\ UNCHANGED <<peer, returned>>
    \/ user # {} /\ INITIALISE(TRUE) /\ Calm(ev') /\ UNCHANGED <<peer, returned>>
    \/ user # {} /\ CONFIGURE(TRUE) /\ Calm(ev') /\ UNCHANGED <<peer, returned>>
    \/ user # {} /\ SETUP_SEQUENCE(TRUE) /\ Calm(ev') /\ UNCHANGED <<peer, returned>>
    \/ user # {} /\ SEQUENCE(TRUE) /\ Calm(ev') /\ UNCHANGED <<peer, returned>>

SpecCancel == CancelInit /\ [][CancelNext]_vars

(***************************************************************************)
(* CONFIGURE and SETUP_SEQUENCE with the tasks they wait for in good order: *)
(* every monitor is acknowledged, every watched task reports the target id *)
(* 5 and none the failure value, nobody kicks the action, and the user      *)
(* callback, which may ask for a reschedule, does not do so for ever.       *)
(***************************************************************************)
\* an entry of that environment
Hale(e) ==
    /\ e.msg.reason = "OBEY" =>
          e.msg.kw = IF e.action = "CONFIGURE" THEN [CONFIGURE_ID |-> "5"]
                     ELSE IF e.action = "SETUP_SEQUENCE" THEN [SETUP_SEQ_ID |-> "5"]
                     ELSE NoKw
    /\ e.msg.reason \notin {"KICK", "MESREJECTED"}
    /\ e.msg.reason = "TRIGGER" => e.msg.transid # 0 /\ e.msg.val # BadVal
    /\ e.exc.code \notin {"BadStatus", "UserError"}

\* the entry is the delivery of the acknowledgement of a monitor of the action
Acknowledged(e) ==
    /\ e.action \in {"CONFIGURE", "SETUP_SEQUENCE"}
    /\ e.msg.reason = "TRIGGER"
    /\ e.msg.status = "MON_STARTED"

\* the entry is the delivery of the target id as the value of the task
ReportedTarget(e, task) ==
    /\ e.action \in {"CONFIGURE", "SETUP_SEQUENCE"}
    /\ e.msg.reason = "TRIGGER"
    /\ e.msg.status = "MON_CHANGED"
    /\ e.msg.transid = NewTransid(task)
    /\ e.msg.val = e.tw.matchval

\* the user callback did not ask for a reschedule in the entry: if the action
\* is rescheduled, it is by the drama.reschedule() of the action itself
Unasked(e) ==
    /\ e.action \in {"CONFIGURE", "SETUP_SEQUENCE"}
    /\ e.result = "resched" => \E k \in DOMAIN e.calls : e.calls[k].op = "drama.reschedule"

LiveINITIALISE == INITIALISE(TRUE) /\ Hale(ev') /\ UNCHANGED <<peer, returned>>

LiveCONFIGURE == CONFIGURE(TRUE) /\ Hale(ev') /\ UNCHANGED <<peer, returned>>

LiveSETUP_SEQUENCE == SETUP_SEQUENCE(TRUE) /\ Hale(ev') /\ UNCHANGED <<peer, returned>>

LiveNext == LiveINITIALISE \/ LiveCONFIGURE \/ LiveSETUP_SEQUENCE

\* one of the two waiting actions is active, and its TaskWaiter
Busy == cfg.active \/ sus.active

ActiveWaiter == IF cfg.active THEN cfg.tw ELSE sus.tw

\* a monitor of the active action has not been acknowledged yet
Unacked ==
    /\ Busy
    /\ \E t \in DOMAIN ActiveWaiter.transid_dict :
          ActiveWaiter.transid_dict[t].mid = None

\* the active action has an acknowledged monitor on the task
Watching(task) ==
    /\ Busy
    /\ NewTransid(task) \in DOMAIN ActiveWaiter.transid_dict
    /\ ActiveWaiter.transid_dict[NewTransid(task)].mid # None

\* DRAMA delivers every acknowledgement and, from every watched task, the target
\* id; entries in which the callback asks for no reschedule keep coming.  Each
\* condition is the weak fairness WF_vars(LiveNext /\ P(ev')) of the deliveries P
\* with ENABLED written as the state predicate on the left: the message is
\* among those DRAMA may deliver exactly in the states described.  Every step
\* records its entry in ev, so the deliveries P are the steps with P(ev').
Fairness ==
    /\ []<>(~Unacked) \/ []<><<Acknowledged(ev')>>_vars
    /\ []<>(~Watching("A")) \/ []<><<ReportedTarget(ev', "A")>>_vars
    /\ []<>(~Watching("B")) \/ []<><<ReportedTarget(ev', "B")>>_vars
    /\ []<>(~Busy) \/ []<><<Unasked(ev')>>_vars

SpecLive == Init /\ [][LiveNext]_vars /\ Fairness

(***************************************************************************)
(* Properties of RetryMonitor                                              *)
(***************************************************************************)
DefaultHandlers ==
    rm.on_kick = "cancel" /\ rm.on_resched = "start" /\ rm.on_orphan = "nop"

\* C2: a subscribe (drama.monitor) is only ever issued while self.tid is None,
\* and a call of handle() issues at most one
C2_SubscribeOnlyWithoutTid ==
    /\ \A i \in DOMAIN rm.calls :
          rm.calls[i].op = "drama.monitor" => rm.calls[i].tid = None
    /\ Cardinality({i \in DOMAIN rm.calls : rm.calls[i].op = "drama.monitor"}) <= 1

\* a RESCHED that found a transaction outstanding and did not subscribe
C2_Witness ==
    /\ rm_msg.reason = "RESCHED"
    /\ rm_pre.tid # None
    /\ rm.on_resched = "start"
    /\ HasCall(rm, "on_resched")
    /\ ~HasCall(rm, "drama.monitor")

\* C8: with the default handlers, OBEY directly followed by KICK leaves the
\* monitor disconnected and without a monitor id
C8_StartThenKick ==
    (DefaultHandlers /\ rm_hist.prev = "OBEY" /\ rm_msg.reason = "KICK")
        => (rm.connected = FALSE /\ rm.mid = None)

C8_Witness ==
    /\ DefaultHandlers
    /\ rm_hist.prev = "OBEY"
    /\ rm_msg.reason = "KICK"
    /\ HasCall(rm, "on_kick")
    /\ rm.tid # None

\* C9 as stated: the first RESCHED after the last subscribe is consumed without
\* any action, and the second of two consecutive RESCHEDs subscribes exactly
\* when no transaction is outstanding
C9_Original ==
    rm_msg.reason = "RESCHED" =>
        /\ rm_hist.since_sub = 1 => rm.calls = <<>>
        /\ (rm_hist.prev = "RESCHED" /\ rm.on_resched = "start")
              => (HasCall(rm, "drama.monitor") <=> rm_pre.tid = None)

\* C9 amended: the first RESCHED after the last TRIGGER of the monitor's own
\* transaction is consumed without any action; every other RESCHED (the first
\* one after START with no TRIGGER yet, the second of two consecutive ones)
\* calls on_resched, whose default subscribes exactly when no transaction is
\* outstanding
C9_FirstTickAfterTrigger ==
    rm_msg.reason = "RESCHED" =>
        /\ rm_hist.since_trig = 1 => rm.calls = <<>>
        /\ rm_hist.since_trig # 1 => HasCall(rm, "on_resched")
        /\ (rm_hist.since_trig # 1 /\ rm.on_resched = "start")
              => (HasCall(rm, "drama.monitor") <=> rm_pre.tid = None)

\* a first tick after a TRIGGER, consumed while a monitor id is recorded
C9_Witness ==
    /\ rm_msg.reason = "RESCHED"
    /\ rm_hist.since_trig = 1
    /\ rm_hist.prev = "TRIGGER"
    /\ rm.mid # None
    /\ rm.calls = <<>>

\* C10: handle() returns True exactly for a TRIGGER with status MON_CHANGED
\* whose transaction id is the monitor's tid
C10_ReturnsTrueIffChanged ==
    rm_msg # NoMsg =>
        (rm.ret = TRUE <=>
            /\ rm_msg.reason = "TRIGGER"
            /\ rm_msg.status = "MON_CHANGED"
            /\ rm_msg.transid = rm_pre.tid)

C10_Witness ==
    /\ rm.ret = TRUE
    /\ rm_msg.reason = "TRIGGER"
    /\ rm_msg.status = "MON_CHANGED"
    /\ rm_msg.transid = rm_pre.tid


(***************************************************************************)
(* Properties of TaskWaiter, CONFIGURE and SETUP_SEQUENCE                  *)
(***************************************************************************)
Cohort == {"CONFIGURE", "SETUP_SEQUENCE"}

\* the entry recorded in e is one of the action a with message reason r
Entered(e, a, r) == e.action = a /\ e.msg.reason = r

\* the entry recorded in e got a MON_CHANGED with value v for a task its
\* TaskWaiter monitors
Reported(e, v) ==
    /\ e.action \in Cohort
    /\ e.msg.reason = "TRIGGER"
    /\ e.msg.status = "MON_CHANGED"
    /\ e.msg.val = v
    /\ e.msg.transid \in DOMAIN e.tw.transid_dict

\* C1: whenever an entry of CONFIGURE or SETUP_SEQUENCE has called
\* tw.waiting(), the call returned False exactly when every task of wait_set
\* is in done_set, as the two sets are at the end of the entry (after
\* check_monitors, the user callback and start_monitors)
C1_WaitingIffOutstanding ==
    ev.waiting # "" =>
        (ev.waiting = "False" <=> ev.tw.wait_set \subseteq ev.tw.done_set)

\* waiting() returned False on a wait_set that is neither empty nor all of done_set
C1_Witness ==
    /\ ev.waiting = "False"
    /\ ev.tw.wait_set # {}
    /\ ev.tw.wait_set # ev.tw.done_set
    /\ ev.cbn = 1

\* C3: a reentry of an active CONFIGURE / SETUP_SEQUENCE leaves every task of
\* the done_set it began with in done_set, whatever the user callback removed
\* from the copy it was handed; and when the callback has returned, every task
\* of that copy is in done_set
C3_DoneSetKept ==
    [][/\ (cfg.active /\ ev'.action = "CONFIGURE")
              => cfg.tw.done_set \subseteq ev'.tw.done_set
       /\ (sus.active /\ ev'.action = "SETUP_SEQUENCE")
              => sus.tw.done_set \subseteq ev'.tw.done_set
       /\ (ev'.action \in Cohort /\ ev'.cbn = 1 /\ ev'.exc.code # "UserError")
              => ev'.dsc_out \subseteq ev'.tw.done_set]_vars

\* a reentry in which the callback removed a task from its copy of done_set
C3_Witness ==
    /\ ev.action \in Cohort
    /\ ev.msg.reason = "RESCHED"
    /\ ev.cbn = 1
    /\ ev.result = "resched"
    /\ ev.tw.done_set \ ev.dsc_out # {}

\* C4: an entry that gets a MON_CHANGED with the value -9999 for a monitored
\* task cancels that task's monitor with its MONITOR_ID, has the task in
\* done_set, and ends with the error RTSDC__GERROR naming the task and the
\* value, without calling the user callback; the action's id is -9999 then.  With
\* target 5 and wait_set {A, B}, after A reported 5, B reporting -9999 ends
\* CONFIGURE with the error naming B
C4_CohortFailure ==
    [][Reported(ev', BadVal) =>
         LET e == ev'.tw.transid_dict[ev'.msg.transid] IN
         /\ ev'.result = "error"
         /\ ev'.exc = Err("RTSDC__GERROR", e.task, BadVal)
         /\ e.task \in ev'.tw.done_set
         /\ ev'.calls = <<[op |-> "drama.cancel", task |-> e.task, id |-> e.mid]>>
         /\ e.mid # None
         /\ ev'.cbn = 0
         /\ ev'.action = "CONFIGURE" =>
               /\ par'.CONFIGURE_ID = BadVal
               /\ ~cfg'.active
         /\ ev'.action = "SETUP_SEQUENCE" =>
               /\ par'.SETUP_SEQ_ID = BadVal
               /\ ~sus'.active
         /\ (/\ ev'.action = "CONFIGURE"
             /\ Reported(ev, 5)
             /\ ev.tw.transid_dict[ev.msg.transid].task = "A"
             /\ cfg.tw.matchval = 5
             /\ cfg.tw.wait_set = {"A", "B"}
             /\ ev'.msg.transid # ev.msg.transid)
               => ev'.exc.task = "B"]_vars

\* the scenario: target 5, wait_set {A, B}, A is done and B has reported -9999
C4_Witness ==
    /\ Reported(ev, BadVal)
    /\ ev.action = "CONFIGURE"
    /\ ev.tw.matchval = 5
    /\ ev.tw.wait_set = {"A", "B"}
    /\ ev.tw.done_set = {"A", "B"}
    /\ ev.exc.task = "B"
    /\ par.CONFIGURE_ID = BadVal

\* C5: when an entry of CONFIGURE has ended with an exception, CONFIGURE_ID
\* is -9999, and when an entry of SETUP_SEQUENCE has, SETUP_SEQ_ID is
C5_ErrorLeavesSentinel ==
    /\ (ev.action = "CONFIGURE" /\ ev.result = "error")
          => par.CONFIGURE_ID = BadVal
    /\ (ev.action = "SETUP_SEQUENCE" /\ ev.result = "error")
          => par.SETUP_SEQ_ID = BadVal

\* a SETUP_SEQUENCE start rejected because the task is not configured
C5_Witness ==
    /\ Entered(ev, "SETUP_SEQUENCE", "OBEY")
    /\ ev.exc.code = "RTSDC__NOT_CONFIGURED"
    /\ par.SETUP_SEQ_ID = BadVal

(***************************************************************************)
(* Properties of SEQUENCE                                                  *)
(***************************************************************************)
\* the frames at which a batch is due when frames f..i are processed with the
\* publish boundary at b: a batch at the frame equal to the boundary, which
\* then moves on by total, up to last
RECURSIVE Cadence(_, _, _, _, _)
Cadence(f, i, b, total, last) ==
    IF f > i THEN <<>>
    ELSE IF f = b
    THEN <<f>> \o Cadence(f + 1, i, Min(b + total, last), total, last)
    ELSE Cadence(f + 1, i, b, total, last)

\* C6: after every entry of SEQUENCE that ended without an exception, the
\* batches published in the activation so far are those at the frames where
\* the counter was equal to the publish boundary, the boundary starting at
\* min(start + STSPL_TOTAL + STSPL_START - 1, end) and moving on by
\* STSPL_TOTAL up to end at every publish; with START = 1, END = 10,
\* STSPL_TOTAL = 4 and STSPL_START = 0, when frame 10 is processed they are
\* three, at the frames 4, 8 and 10, of 4, 4 and 2 frames
C6_PublishCadence ==
    (ev.action = "SEQUENCE" /\ ev.result # "error") =>
        LET q == ev.q
            b == Min(q.start + q.stspl_total + q.stspl_start - 1, q.end)
        IN /\ [k \in DOMAIN q.pubs |-> q.pubs[k].at]
                 = Cadence(q.start, q.i, b, q.stspl_total, q.end)
           /\ (/\ q.start = 1
               /\ q.end = 10
               /\ q.stspl_total = 4
               /\ q.stspl_start = 0
               /\ q.i >= 10)
                 => q.pubs = <<[at |-> 4, n |-> 4], [at |-> 8, n |-> 4],
                               [at |-> 10, n |-> 2]>>

\* the scenario: frame 10 of 1..10 has just been processed and published
C6_Witness ==
    /\ ev.action = "SEQUENCE"
    /\ ev.result = "resched"
    /\ ev.q.start = 1
    /\ ev.q.end = 10
    /\ ev.q.stspl_total = 4
    /\ ev.q.stspl_start = 0
    /\ ev.q.i = 10
    /\ Len(ev.q.pubs) = 3
    /\ par.STATE_ = <<9, 10>>

\* the place in a notification's frames of the first one whose NUMBER is not
\* the counter i after its increment (0: there is none)
FirstMismatch(fs, i) ==
    IF \A k \in DOMAIN fs : fs[k] = i + k THEN 0
    ELSE CHOOSE k \in DOMAIN fs :
            /\ fs[k] # i + k
            /\ \A j \in 1..(k - 1) : fs[j] = i + j

\* C7: an entry of SEQUENCE in the sequence body (IN_SEQUENCE = 1) for a
\* MON_CHANGED of its monitor with a frame whose NUMBER is not the counter
\* after its increment ends with an exception, RTSDC__GERROR unless a user
\* callback raised before; only the frames before that frame are appended to
\* the batch, no batch is published at that frame or a later one, and the
\* activation has ended
C7_MismatchAborts ==
    [][(/\ seq.active
        /\ par.IN_SEQUENCE = 1
        /\ ev'.action = "SEQUENCE"
        /\ ev'.msg.reason = "TRIGGER"
        /\ ev'.msg.transid = seq.transid
        /\ FirstMismatch(ev'.msg.frames, seq.i) # 0)
          => LET k == FirstMismatch(ev'.msg.frames, seq.i) IN
             /\ ev'.result = "error"
             /\ ev'.fn <= k - 1
             /\ ev'.exc.code # "UserError"
                   => /\ ev'.exc = Err("RTSDC__GERROR", "", ev'.msg.frames[k])
                      /\ ev'.fn = k - 1
             /\ \A p \in DOMAIN ev'.q.pubs : ev'.q.pubs[p].at < seq.i + k
             /\ ~seq'.active
             /\ par'.IN_SEQUENCE = 0]_vars

\* frame 7 arrived when 6 was expected, after frame 5 in the same notification
C7_Witness ==
    /\ Entered(ev, "SEQUENCE", "TRIGGER")
    /\ ev.msg.frames = <<5, 7>>
    /\ ev.exc = Err("RTSDC__GERROR", "", 7)
    /\ ev.fn = 1
    /\ ev.q.i = 6

(***************************************************************************)
(* Properties of the preconditions of the actions                          *)
(***************************************************************************)
\* the entry logged in ev' is a start rejected with code: the exception leaves
\* the action, which is not active afterwards, no TaskWaiter was created, no
\* DRAMA call (monitor, reschedule, cancel) was made and no user callback called
Rejected(e, code) ==
    /\ e.result = "error"
    /\ e.exc.code = code
    /\ e.tw = NoTW
    /\ e.calls = <<>>
    /\ e.cbn = 0

\* C11: a CONFIGURE start is rejected with NOT_INITIALISED when INITIALISED = 0
\* and otherwise with ACTION_WHILE_SEQ_ACTIVE when IN_SEQUENCE # 0; a
\* SETUP_SEQUENCE start is rejected with NOT_INITIALISED when INITIALISED = 0,
\* otherwise with NOT_CONFIGURED when CONFIGURED = 0, otherwise with
\* ACTION_WHILE_SEQ_ACTIVE when IN_SEQUENCE # 0; the rejected start creates no
\* tracker, opens no subscription, calls no user callback, requests no
\* re-invocation and leaves the action inactive
C11_StartRejected ==
    [][/\ Entered(ev', "CONFIGURE", "OBEY") =>
            /\ par.INITIALISED = 0 =>
                  Rejected(ev', "RTSDC__NOT_INITIALISED") /\ ~cfg'.active
            /\ (par.INITIALISED # 0 /\ par.IN_SEQUENCE # 0) =>
                  Rejected(ev', "RTSDC__ACTION_WHILE_SEQ_ACTIVE") /\ ~cfg'.active
       /\ Entered(ev', "SETUP_SEQUENCE", "OBEY") =>
            /\ par.INITIALISED = 0 =>
                  Rejected(ev', "RTSDC__NOT_INITIALISED") /\ ~sus'.active
            /\ (par.INITIALISED # 0 /\ par.CONFIGURED = 0) =>
                  Rejected(ev', "RTSDC__NOT_CONFIGURED") /\ ~sus'.active
            /\ (par.INITIALISED # 0 /\ par.CONFIGURED # 0 /\ par.IN_SEQUENCE # 0) =>
                  Rejected(ev', "RTSDC__ACTION_WHILE_SEQ_ACTIVE") /\ ~sus'.active
      ]_vars

\* a SETUP_SEQUENCE command has been rejected because a sequence is running,
\* which a user callback was ready to serve
C11_Witness ==
    /\ Entered(ev, "SETUP_SEQUENCE", "OBEY")
    /\ ev.exc.code = "RTSDC__ACTION_WHILE_SEQ_ACTIVE"
    /\ seq.active
    /\ "setup_sequence" \in user

\* the entry logged in e ended with the error code and did not call drama.monitor
TypedError(e, code) ==
    /\ e.result = "error"
    /\ e.exc.code = code
    /\ ~HasCall(e, "drama.monitor")

\* C12: a SEQUENCE start is rejected with NOT_INITIALISED, NOT_CONFIGURED or
\* NOT_SETUP, checked in that order, whenever the flag it names is 0, also when
\* it is the first SEQUENCE command of the task; the error that leaves the
\* action is that typed error, and drama.monitor is not called
C12_TypedRejection ==
    [][Entered(ev', "SEQUENCE", "OBEY") =>
          /\ par.INITIALISED = 0 => TypedError(ev', "RTSDC__NOT_INITIALISED")
          /\ (par.INITIALISED # 0 /\ par.CONFIGURED = 0) =>
                TypedError(ev', "RTSDC__NOT_CONFIGURED")
          /\ (par.INITIALISED # 0 /\ par.CONFIGURED # 0 /\ par.SETUP = 0) =>
                TypedError(ev', "RTSDC__NOT_SETUP")
      ]_vars

\* C13: the start of INITIALISE clears INITIALISED, CONFIGURED, SETUP and
\* IN_SEQUENCE; an entry of INITIALISE leaves INITIALISED = 1 exactly when it
\* returns with no reschedule pending (so never on a kick, on an error or while
\* the callback reschedules), INITIALISED is 0 as long as INITIALISE is active,
\* and nothing but such an entry of INITIALISE sets it to 1
C13_InitialisedAtEnd ==
    [][/\ Entered(ev', "INITIALISE", "OBEY") =>
            /\ par'.CONFIGURED = 0 /\ par'.SETUP = 0 /\ par'.IN_SEQUENCE = 0
            /\ ev'.result # "done" => par'.INITIALISED = 0
       /\ ev'.action = "INITIALISE" =>
            (par'.INITIALISED = 1 <=> ev'.result = "done")
       /\ Entered(ev', "INITIALISE", "KICK") =>
            ev'.result = "error" /\ ~ini'.active
       /\ ini'.active => par'.INITIALISED = 0
       /\ (par.INITIALISED = 0 /\ par'.INITIALISED # 0) =>
            ev'.action = "INITIALISE" /\ ev'.msg.reason # "KICK" /\ ~ini'.active
      ]_vars

\* INITIALISE was started while a sequence was taking frames, cleared
\* IN_SEQUENCE, and its callback has asked for a reschedule
C13_Witness ==
    /\ Entered(ev, "INITIALISE", "OBEY")
    /\ ev.result = "resched"
    /\ ini.active
    /\ seq.active
    /\ par.SEQUENCE_ID # -1
    /\ par.IN_SEQUENCE = 0
    /\ par.INITIALISED = 0

(***************************************************************************)
(* Properties of the completion of CONFIGURE and SETUP_SEQUENCE            *)
(***************************************************************************)
\* the entry e of the action act, with keyword key for its target: c is the
\* action before the entry and d after it, p the parameters before and q after.
\* The TaskWaiter's matchval is the target of the command and stays; while the
\* action is active the id reads -1 and the flag 0; an entry that does not end
\* the activation without error leaves the id at -1 or -9999 and does not raise
\* the flag; the entry that does publishes the target and 1 and has
\* wait_set \subseteq done_set
PublishedAtEnd(e, act, key, c, d, p, q, id, flag) ==
    e.action = act =>
      /\ (e.msg.reason = "OBEY" /\ e.tw # NoTW) =>
            e.tw.matchval = int(Get(e.msg.kw, key, "1"))
      /\ c.active => e.tw.matchval = c.tw.matchval
      /\ d.active => q[id] = -1 /\ q[flag] = 0
      /\ e.result # "done" =>
            /\ q[id] \in {-1, BadVal}
            /\ q[flag] \in {0, p[flag]}
      /\ e.result = "done" =>
            /\ q[id] = e.tw.matchval
            /\ q[flag] = 1
            /\ e.tw.wait_set \subseteq e.tw.done_set
            /\ ~d.active

\* C14: CONFIGURE_ID (SETUP_SEQ_ID) is set to the target of the command, and
\* CONFIGURED (SETUP) to 1, only in an entry at whose end wait_set is a subset
\* of done_set and no reschedule is pending; from the accepted start until that
\* entry the id reads -1 and the flag 0
C14_PublishedWhenSettled ==
    [][/\ PublishedAtEnd(ev', "CONFIGURE", "CONFIGURE_ID", cfg, cfg', par, par',
                         "CONFIGURE_ID", "CONFIGURED")
       /\ PublishedAtEnd(ev', "SETUP_SEQUENCE", "SETUP_SEQ_ID", sus, sus', par, par',
                         "SETUP_SEQ_ID", "SETUP")
      ]_vars

\* SETUP_SEQUENCE with target 5 has completed in the entry in which the last of
\* the two tasks it waited for reported 5
C14_Witness ==
    /\ Reported(ev, 5)
    /\ ev.action = "SETUP_SEQUENCE"
    /\ ev.result = "done"
    /\ ev.tw.wait_set = {"A", "B"}
    /\ ev.tw.done_set = {"A", "B"}
    /\ par.SETUP_SEQ_ID = 5
    /\ par.SETUP = 1

\* C15: an entry of CONFIGURE or SETUP_SEQUENCE that returns without error
\* while a task of wait_set is not in done_set leaves a reschedule pending and
\* the action active: the activation does not end successfully with tasks
\* outstanding
C15_RescheduledWhileOutstanding ==
    (/\ ev.action \in Cohort
     /\ ev.result # "error"
     /\ ~(ev.tw.wait_set \subseteq ev.tw.done_set))
    => /\ ev.result = "resched"
       /\ ev.action = "CONFIGURE" => cfg.active /\ cfg.tw = ev.tw
       /\ ev.action = "SETUP_SEQUENCE" => sus.active /\ sus.tw = ev.tw

\* CONFIGURE waits for A and B, A has reported the target, the callback did not
\* ask for a reschedule and the action itself called drama.reschedule
C15_Witness ==
    /\ Reported(ev, 5)
    /\ ev.action = "CONFIGURE"
    /\ ev.tw.wait_set = {"A", "B"}
    /\ ev.tw.done_set = {"A"}
    /\ ev.waiting = "True"
    /\ HasCall(ev, "drama.reschedule")
    /\ cfg.active

(***************************************************************************)
(* Properties of kicks                                                     *)
(***************************************************************************)
\* C16: in a KICK entry of INITIALISE, CONFIGURE, SETUP_SEQUENCE or SEQUENCE
\* the registered user callback is called exactly once (and no frame or batch
\* callback), the entry ends with an error and the action is not active
\* afterwards, whatever reschedule the callback or the action asked for in the
\* entry; drama.monitor is not called
C16_KickEndsAction ==
    [][ev'.msg.reason = "KICK" =>
          /\ ev'.action \in {"INITIALISE", "CONFIGURE", "SETUP_SEQUENCE", "SEQUENCE"}
          /\ ev'.cbn = IF user = {} THEN 0 ELSE 1
          /\ ev'.fn = 0
          /\ ev'.result = "error"
          /\ ~HasCall(ev', "drama.monitor")
          /\ ev'.action = "INITIALISE" => ini.active /\ ~ini'.active
          /\ ev'.action = "CONFIGURE" => cfg.active /\ ~cfg'.active
          /\ ev'.action = "SETUP_SEQUENCE" => sus.active /\ ~sus'.active
          /\ ev'.action = "SEQUENCE" => seq.active /\ ~seq'.active
      ]_vars

\* SEQUENCE was kicked: its callback was called, the action called
\* drama.reschedule after it, and the action has ended with the error
C16_Witness ==
    /\ Entered(ev, "SEQUENCE", "KICK")
    /\ ev.cbn = 1
    /\ HasCall(ev, "drama.reschedule")
    /\ ev.exc.code = "RTSDC__GERROR"
    /\ ~seq.active

\* C17: in a KICK entry CONFIGURE / SETUP_SEQUENCE calls drama.cancel for every
\* monitor its TaskWaiter has started, acknowledged or not, and has not
\* cancelled yet (the task is not in done_set)
C17_KickCancelsMonitors ==
    [][(ev'.action \in Cohort /\ ev'.msg.reason = "KICK") =>
          LET tw == IF ev'.action = "CONFIGURE" THEN cfg.tw ELSE sus.tw IN
          \A t \in DOMAIN tw.transid_dict :
             tw.transid_dict[t].task \notin tw.done_set =>
                \E i \in DOMAIN ev'.calls :
                   /\ ev'.calls[i].op = "drama.cancel"
                   /\ ev'.calls[i].task = tw.transid_dict[t].task
      ]_vars

(***************************************************************************)
(* Properties of two tasks                                                 *)
(***************************************************************************)
\* this task's CONFIGURE has B in wait_set and an acknowledged monitor on B's
\* CONFIGURE_ID that it has not cancelled
WatchingPeer ==
    /\ cfg.active
    /\ peer.open
    /\ "B" \in cfg.tw.wait_set
    /\ NewTransid("B") \in DOMAIN cfg.tw.transid_dict
    /\ cfg.tw.transid_dict[NewTransid("B")].mid # None

C19_ResubscribedByTwoTicks ==
    (DefaultHandlers /\ rm_hist.since_died = 2) => rm_hist.resub_at \in {1, 2}

\* after a TRIGGER and the DIED of its transaction the monitor let the first
\* RESCHED pass and called drama.monitor at the second
C19_Witness ==
    /\ DefaultHandlers
    /\ rm_hist.since_died = 2
    /\ rm_hist.resub_at = 2
    /\ rm_hist.since_trig = 2
    /\ rm_msg.reason = "RESCHED"
    /\ HasCall(rm, "drama.monitor")

(***************************************************************************)
(* Properties of a rejected monitor                                        *)
(***************************************************************************)
\* C20: when CONFIGURE / SETUP_SEQUENCE gets MESREJECTED for a monitor its
\* TaskWaiter started, the entry does not fail unless the user callback raises,
\* the action stays active, and the task of that monitor, if still in wait_set,
\* is monitored anew in this entry or no longer counts as monitored, so that
\* a later entry starts a monitor on it again
C20_RejectionRetried ==
    [][(/\ ev'.action \in Cohort
        /\ ev'.msg.reason = "MESREJECTED"
        /\ ev'.exc.code # "UserError") =>
          LET tw == IF ev'.action = "CONFIGURE" THEN cfg.tw ELSE sus.tw
              task == tw.transid_dict[ev'.msg.transid].task
          IN /\ ev'.result # "error"
             /\ (ev'.result = "resched" /\ task \in ev'.tw.wait_set) =>
                   \/ \E i \in DOMAIN ev'.calls :
                         /\ ev'.calls[i].op = "drama.monitor"
                         /\ ev'.calls[i].task = task
                   \/ task \notin Monitored(ev'.tw)
      ]_vars

(***************************************************************************)
(* Properties of RetryMonitor: the delayed restart                         *)
(***************************************************************************)
\* C21: the first RESCHED handled after a TRIGGER of the monitor's own
\* transaction (MON_STARTED, MON_CHANGED or any other status) does not call
\* on_resched; the RESCHED that follows a RESCHED with no such TRIGGER in
\* between does; so with the default handlers a RESCHED cancels a monitor
\* (drama.cancel) only when it is at least the second since the last TRIGGER
C21_CancelAfterTwoTicks ==
    rm_msg.reason = "RESCHED" =>
        /\ rm_hist.since_trig = 1 => ~HasCall(rm, "on_resched")
        /\ (rm_hist.prev = "RESCHED" /\ rm_hist.since_trig # 1)
              => HasCall(rm, "on_resched")
        /\ (DefaultHandlers /\ HasCall(rm, "drama.cancel"))
              => rm_hist.since_trig = 2

\* the acknowledged, connected monitor got two RESCHEDs after its last TRIGGER:
\* the second one has cancelled it
C21_Witness ==
    /\ DefaultHandlers
    /\ rm_msg.reason = "RESCHED"
    /\ rm_hist.prev = "RESCHED"
    /\ rm_hist.since_trig = 2
    /\ rm_hist.since_died = None
    /\ HasCall(rm, "drama.cancel")
    /\ rm_pre.mid # None
    /\ rm_pre.connected

\* C22: handle() of a DIED or MESREJECTED whose transaction id is the monitor's
\* tid sets tid and mid to None and connected to False, calls neither
\* drama.cancel nor drama.monitor nor a handler slot, and returns False; the
\* same messages with another transaction id that is not 0 leave tid, mid and
\* connected as they were
C22_DisconnectClears ==
    (rm_msg.reason \in {"DIED", "MESREJECTED"} /\ rm_msg.transid # 0) =>
        /\ rm.calls = <<>>
        /\ rm.ret = FALSE
        /\ rm_msg.transid = rm_pre.tid =>
              rm.tid = None /\ rm.mid = None /\ rm.connected = FALSE
        /\ rm_msg.transid # rm_pre.tid =>
              /\ rm.tid = rm_pre.tid
              /\ rm.mid = rm_pre.mid
              /\ rm.connected = rm_pre.connected

\* the watched task died while the monitor was acknowledged and connected
C22_Witness ==
    /\ rm_msg.reason = "DIED"
    /\ rm_msg.transid = rm_pre.tid
    /\ rm_pre.mid # None
    /\ rm_pre.connected
    /\ rm.tid = None
    /\ rm.mid = None
    /\ ~rm.connected

\* C23: handle() of a COMPLETE whose transaction id is the monitor's tid clears
\* tid, mid and connected and calls drama.monitor in the same call, and nothing
\* else; with the default handlers a RESCHED that cancels the monitor leaves the
\* transaction outstanding and does not subscribe, and apart from OBEY only
\* that COMPLETE, or a RESCHED that finds tid = None, calls drama.monitor
C23_CompleteRestarts ==
    /\ (rm_msg.reason = "COMPLETE" /\ rm_msg.transid = rm_pre.tid) =>
          /\ Len(rm.calls) = 1
          /\ rm.calls[1].op = "drama.monitor"
          /\ rm.calls[1].tid = None
          /\ rm.mid = None
          /\ rm.connected = FALSE
    /\ (DefaultHandlers /\ rm_msg.reason = "RESCHED" /\ HasCall(rm, "drama.cancel")) =>
          /\ ~HasCall(rm, "drama.monitor")
          /\ rm.tid # None
          /\ rm.tid = rm_pre.tid
    /\ (DefaultHandlers /\ HasCall(rm, "drama.monitor") /\ rm_msg.reason # "OBEY") =>
          \/ rm_msg.reason = "COMPLETE" /\ rm_msg.transid = rm_pre.tid
          \/ rm_msg.reason = "RESCHED" /\ rm_pre.tid = None

\* the COMPLETE of the transaction whose monitor a RESCHED had cancelled has
\* come, and the monitor has subscribed again
C23_Witness ==
    /\ DefaultHandlers
    /\ rm_msg.reason = "COMPLETE"
    /\ rm_msg.transid = rm_pre.tid
    /\ rm_hist.prev = "RESCHED"
    /\ rm_hist.since_trig = 2
    /\ rm_pre.mid = None
    /\ HasCall(rm, "drama.monitor")
    /\ rm.tid # None

\* the number of drama.monitor calls the entry e made on the task
MonitorCalls(e, task) ==
    Cardinality({k \in DOMAIN e.calls :
                    e.calls[k].op = "drama.monitor" /\ e.calls[k].task = task})

\* the entry e of an action that held c before it: every task of the wait_set
\* without a subscription is, when the roster is non-empty and lacks it, put
\* into done_set and not subscribed to, and otherwise subscribed to once and not
\* put into done_set; no other task is subscribed to
StartedMonitors(c, e, roster) ==
    \A task \in Tasks :
        IF task \in e.tw.wait_set \ Monitored(c.tw)
        THEN IF roster # {} /\ task \notin roster
             THEN /\ task \in e.tw.done_set
                  /\ task \notin Monitored(e.tw)
                  /\ MonitorCalls(e, task) = 0
             ELSE /\ MonitorCalls(e, task) = 1
                  /\ task \in Monitored(e.tw)
                  /\ task \in e.tw.done_set =>
                        task \in c.tw.done_set \cup e.dsc_out
        ELSE MonitorCalls(e, task) = 0

\* C24: in every entry of CONFIGURE or SETUP_SEQUENCE that runs start_monitors
\* to its end, a task of wait_set without a subscription is skipped into
\* done_set when the TASKS roster is non-empty and lacks it, and is otherwise
\* subscribed to exactly once and not added to done_set; in CONFIGURE the
\* roster is empty and no task is skipped
C24_StartMonitors ==
    [][(/\ ev' # ev
        /\ ev'.action \in Cohort
        /\ ev'.result # "error"
        /\ ev'.msg.reason # "KICK") =>
          /\ ev'.action = "CONFIGURE" =>
                par'.TASKS = "" /\ StartedMonitors(cfg, ev', {})
          /\ ev'.action = "SETUP_SEQUENCE" =>
                StartedMonitors(sus, ev', split(par'.TASKS))]_vars

\* SETUP_SEQUENCE with the roster "B" has subscribed to B and skipped A
C24_Witness ==
    /\ ev.action = "SETUP_SEQUENCE"
    /\ ev.result = "resched"
    /\ par.TASKS = "B"
    /\ ev.tw.wait_set = {"A", "B"}
    /\ Monitored(ev.tw) = {"B"}
    /\ "A" \in ev.tw.done_set
    /\ "B" \notin ev.tw.done_set

\* the entry of the action a on msg at the point where tw.check_monitors(msg)
\* has returned or raised, the action holding c before the entry
CheckedBy(a, c, msg) ==
    IF a = "CONFIGURE"
    THEN CONFIGURE_begin(Entry(par, c.tw, c.ret), msg)
    ELSE SETUP_SEQUENCE_begin(Entry(par, c.tw, c.ret), msg)

\* what check_monitors(msg) made of the TaskWaiter tw: k is the entry after it
CheckMonitorsDid(tw, msg, k) ==
    LET own == msg.reason = "TRIGGER" /\ msg.transid \in DOMAIN tw.transid_dict
        chg == own /\ msg.status = "MON_CHANGED"
    IN /\ ~own => k.tw = tw /\ k.calls = <<>> /\ ~Failed(k)
       /\ (own /\ msg.status = "MON_STARTED") =>
             /\ k.tw = [tw EXCEPT !.transid_dict[msg.transid].mid = msg.mid]
             /\ k.calls = <<>>
             /\ ~Failed(k)
       /\ (chg /\ msg.val = tw.matchval) =>
             LET e == tw.transid_dict[msg.transid] IN
             /\ k.tw = [tw EXCEPT !.done_set = @ \cup {e.task}]
             /\ k.calls = <<[op |-> "drama.cancel", task |-> e.task, id |-> e.mid]>>
             /\ ~Failed(k)
       /\ (chg /\ msg.val \notin {tw.matchval, tw.badval}) =>
             k.tw = tw /\ k.calls = <<>> /\ ~Failed(k)

\* C25: in an entry of CONFIGURE or SETUP_SEQUENCE after the OBEY,
\* check_monitors changes the TaskWaiter only on a TRIGGER of one of its
\* transactions: MON_STARTED stores the monitor id; MON_CHANGED with the match
\* value cancels the monitor on that task and adds the task, and no other, to
\* done_set without raising; MON_CHANGED with a value that is neither the match
\* nor the bad value, and a message of any other transaction, change nothing
C25_CheckMonitors ==
    [][(ev' # ev /\ ev'.action \in Cohort /\ ev'.msg.reason # "OBEY") =>
          /\ ev'.action = "CONFIGURE" =>
                CheckMonitorsDid(cfg.tw, ev'.msg, CheckedBy("CONFIGURE", cfg, ev'.msg))
          /\ ev'.action = "SETUP_SEQUENCE" =>
                CheckMonitorsDid(sus.tw, ev'.msg,
                                 CheckedBy("SETUP_SEQUENCE", sus, ev'.msg))]_vars

\* a watched task has published the match value: its monitor was cancelled and
\* it is in done_set, while another task is still waited for
C25_Witness ==
    /\ Reported(ev, ev.tw.matchval)
    /\ ev.result = "resched"
    /\ \E k \in DOMAIN ev.calls :
          /\ ev.calls[k].op = "drama.cancel"
          /\ ev.calls[k].task = ev.tw.transid_dict[ev.msg.transid].task
          /\ ev.calls[k].id # None
    /\ ev.tw.transid_dict[ev.msg.transid].task \in ev.tw.done_set
    /\ waiting(ev.tw)

\* the entry e of SEQUENCE is on the COMPLETE of the activation's own monitor
OwnComplete(e) ==
    /\ e.action = "SEQUENCE"
    /\ e.msg.reason = "COMPLETE"
    /\ e.msg.transid = e.q.transid

\* C26: an entry of SEQUENCE on the COMPLETE of its own monitor transaction,
\* unless the user callback raised in it, returns with no reschedule requested
\* (drama.reschedule(False) is its last call), the activation over,
\* IN_SEQUENCE = 0 and SEQUENCE_ID = -1; every other entry that ends without
\* an error returns with a reschedule requested
C26_CompleteEndsSequence ==
    ev.action = "SEQUENCE" =>
        /\ (OwnComplete(ev) /\ ev.exc.code # "UserError") =>
              /\ ev.result = "done"
              /\ ev.calls # <<>>
              /\ ev.calls[Len(ev.calls)].op = "drama.reschedule(False)"
              /\ ~seq.active
              /\ par.IN_SEQUENCE = 0
              /\ par.SEQUENCE_ID = -1
        /\ (ev.result # "error" /\ ~OwnComplete(ev)) =>
              ev.result = "resched" /\ seq.active

\* the sequence ran to its last frame, the monitor completed and the callback
\* of that entry had asked for a reschedule itself
C26_Witness ==
    /\ OwnComplete(ev)
    /\ ev.result = "done"
    /\ ev.cbn = 1
    /\ ev.calls = <<[op |-> "drama.reschedule(False)", task |-> "", id |-> None]>>
    /\ ev.q.i = ev.q.end
    /\ par.IN_SEQUENCE = 0
    /\ par.SEQUENCE_ID = -1

\* the start of the activation the entry e belongs to: the START argument of
\* its OBEY (default 1), kept in SEQUENCE.start for the later entries
ActivationStart(e) ==
    IF e.msg.reason = "OBEY" THEN int(Get(e.msg.kw, "START", "1")) ELSE e.q.start

\* C27: every entry of SEQUENCE that ends with an error (rejected start,
\* argument error, NUMBER mismatch, callback exception, kick) has, as its last
\* call, written SEQUENCE_ID = start of its activation, and leaves
\* IN_SEQUENCE = 0 and SEQUENCE_ID = -1
C27_AbnormalExitClears ==
    (ev.action = "SEQUENCE" /\ ev.result = "error") =>
        /\ ev.calls # <<>>
        /\ ev.calls[Len(ev.calls)] =
              [op |-> "set_param SEQUENCE_ID", task |-> "", id |-> ActivationStart(ev)]
        /\ par.IN_SEQUENCE = 0
        /\ par.SEQUENCE_ID = -1

\* the message is a change notification of the monitor of the activation q
OwnChange(q, msg) ==
    /\ q.active
    /\ msg.reason = "TRIGGER"
    /\ msg.status = "MON_CHANGED"
    /\ msg.transid = q.transid

\* a step that enters SEQUENCE on a change notification of its own monitor and
\* returns without an error
ChangeEntry ==
    /\ ev' # ev
    /\ ev'.action = "SEQUENCE"
    /\ OwnChange(seq, ev'.msg)
    /\ ev'.result # "error"

\* the step consumed the notification without frame processing
Skipped ==
    /\ par'.IN_SEQUENCE = 1
    /\ par'.SEQUENCE_ID = seq.start
    /\ ev'.fn = 0
    /\ seq'.i = seq.i
    /\ seq'.state = seq.state
    /\ seq'.stspl_publish = seq.stspl_publish
    /\ par'.STSPL_INDEX = par.STSPL_INDEX
    /\ par'.STSPL_PUBLISH = par.STSPL_PUBLISH
    /\ par'.STSPL_BUFFCOUNT = par.STSPL_BUFFCOUNT
    /\ par'.STATE_ = par.STATE_

\* the step processed every frame of the notification
Processed ==
    /\ ev'.fn = Len(ev'.msg.frames)
    /\ seq'.i = seq.i + Len(ev'.msg.frames)
    /\ par'.IN_SEQUENCE = par.IN_SEQUENCE
    /\ par'.SEQUENCE_ID = par.SEQUENCE_ID

Cancels(e) ==
    {k \in DOMAIN e.calls :
        e.calls[k] = [op |-> "drama.cancel", task |-> "RTS", id |-> e.q.monid]}

\* C29: in an entry of an active SEQUENCE that meets no NUMBER mismatch, the
\* monitor on the sequencer is cancelled once when the frame counter, below end
\* before the entry, reaches end in it, and not at all otherwise; the counter
\* never decreases, so there is at most one cancel in an activation
C29_CancelAtEnd ==
    [][(/\ ev' # ev
        /\ ev'.action = "SEQUENCE"
        /\ seq.active
        /\ ~(ev'.msg.reason = "TRIGGER" /\ ev'.exc.code = "RTSDC__GERROR")) =>
          /\ ev'.q.i >= seq.i
          /\ \A k \in DOMAIN ev'.calls :
                ev'.calls[k].op = "drama.cancel" => k \in Cancels(ev')
          /\ Cardinality(Cancels(ev')) =
                IF seq.i < seq.end /\ ev'.q.i >= seq.end THEN 1 ELSE 0]_vars

\* the counter has reached end in an entry that took two frames, after earlier
\* entries of the activation, and the monitor was cancelled once in it
C29_Witness ==
    /\ ev.action = "SEQUENCE"
    /\ OwnChange(seq, ev.msg)
    /\ ev.result = "resched"
    /\ Cardinality(Cancels(ev)) = 1
    /\ ev.fn = 2
    /\ seq.start < seq.end
    /\ seq.i >= seq.end

\* a step that is an entry of the active SEQUENCE and returns without an error
SequenceEntry ==
    /\ ev' # ev
    /\ ev'.action = "SEQUENCE"
    /\ seq.active
    /\ ev'.result # "error"

\* the entry published no batch: every frame it took is appended to the batch
\* and counted in STSPL_INDEX, and nothing else of the spool changes
OnlyIndexed ==
    /\ par'.STSPL_INDEX = par.STSPL_INDEX + ev'.fn
    /\ Len(ev'.q.state) = Len(seq.state) + ev'.fn
    /\ par'.STSPL_PUBLISH = par.STSPL_PUBLISH
    /\ par'.STSPL_BUFFCOUNT = par.STSPL_BUFFCOUNT
    /\ par'.STATE_ = par.STATE_

\* the entry published: STATE is the batch of the last publish, which ends with
\* the frame at the boundary (and is the whole batch when no sequence_batch
\* callback replaces it); the batch holds the frames taken since
Published ==
    LET last == ev'.q.pubs[Len(ev'.q.pubs)] IN
    /\ par'.STATE_ # <<>>
    /\ par'.STATE_[Len(par'.STATE_)] = last.at
    /\ user = {} => Len(par'.STATE_) = last.n
    /\ ev'.q.state = [k \in 1..(ev'.q.i - last.at) |-> last.at + k]
    /\ par'.STSPL_BUFFCOUNT = par.STSPL_BUFFCOUNT + Len(ev'.q.pubs) - Len(seq.pubs)

\* C30: at the end of every entry of SEQUENCE without an error STSPL_INDEX is 1 +
\* the length of the batch, STSPL_BUFFCOUNT the number of publishes of the
\* activation and STSPL_PUBLISH the publish boundary, which is at most end; an
\* entry that publishes leaves the published batch in STATE and in the batch
\* only the frames taken after it, an entry that does not publish only adds its
\* frames to the batch and to STSPL_INDEX
C30_SpoolParameters ==
    [][/\ (ev' # ev /\ ev'.action = "SEQUENCE" /\ ev'.result # "error") =>
            /\ par'.STSPL_INDEX = 1 + Len(ev'.q.state)
            /\ par'.STSPL_BUFFCOUNT = Len(ev'.q.pubs)
            /\ par'.STSPL_PUBLISH = ev'.q.stspl_publish
            /\ ev'.q.stspl_publish <= ev'.q.end
       /\ SequenceEntry =>
            IF Len(ev'.q.pubs) = Len(seq.pubs) THEN OnlyIndexed ELSE Published]_vars

\* the third batch is being filled: two batches were published and the last
\* entry took two frames, publishing after the first of them
C30_Witness ==
    /\ seq.active
    /\ ev.action = "SEQUENCE"
    /\ ev.fn = 2
    /\ Len(seq.pubs) = 2
    /\ par.STSPL_BUFFCOUNT = 2
    /\ Len(seq.state) = 1
    /\ par.STSPL_INDEX = 2
    /\ Len(par.STATE_) > 1

(***************************************************************************)
(* Properties of the value an action returns                               *)
(***************************************************************************)
\* C31: an entry of INITIALISE, CONFIGURE, SETUP_SEQUENCE or SEQUENCE that
\* returns with no reschedule requested returns the last value other than None
\* that the user callback returned in an entry of the activation, and None when
\* there was none
C31_ReturnsCachedValue ==
    (ev.action # "" /\ ev.result = "done") => ev.retval = returned.val

\* CONFIGURE has ended returning 7, which the callback had returned two or more
\* entries before the last one
C31_Witness ==
    /\ ev.action = "CONFIGURE"
    /\ ev.result = "done"
    /\ ev.msg.reason = "TRIGGER"
    /\ ev.retval = 7
    /\ returned = [val |-> 7, age |-> 2]
    /\ par.CONFIGURED = 1

(***************************************************************************)
(* Properties of the RetryMonitor's connection state                       *)
(***************************************************************************)
\* C32: whenever a RetryMonitor is connected it holds a monitor id; after a
\* cancel (on KICK or RESCHED) it is not connected before the MON_STARTED of a
\* new subscription has been handled
C32_ConnectedHasMid == rm.connected => rm.mid # None

(***************************************************************************)
(* Properties of the subscriptions of one activation                       *)
(***************************************************************************)
\* the entry e of an action that held c before it subscribed to no task more
\* than once, to no task that c had subscribed to, and recorded each task it
\* subscribed to
SubscribedOnce(c, e) ==
    \A task \in Tasks :
        /\ MonitorCalls(e, task) <= 1
        /\ task \in Monitored(c.tw) => MonitorCalls(e, task) = 0
        /\ (MonitorCalls(e, task) = 1 /\ e.result # "error") =>
              task \in Monitored(e.tw)
        /\ task \in Monitored(c.tw) /\ e.msg.reason # "OBEY" =>
              task \in Monitored(e.tw)

\* C33: in one activation of CONFIGURE or SETUP_SEQUENCE drama.monitor is
\* called at most once for a task, whatever the entries and whatever the user
\* callback does to wait_set: an entry subscribes to no task that has a
\* transaction of the activation, and every subscription is kept on record
\* until the activation ends
C33_OneSubscriptionPerTask ==
    [][/\ ev'.action = "CONFIGURE" => SubscribedOnce(cfg, ev')
       /\ ev'.action = "SETUP_SEQUENCE" => SubscribedOnce(sus, ev')]_vars

\* a re-entry with task A waited for, not done and subscribed to earlier in the
\* activation made no further subscription
C33_Witness ==
    /\ ev.action = "CONFIGURE"
    /\ ev.msg.reason = "RESCHED"
    /\ ev.result = "resched"
    /\ ev.cbn = 1
    /\ "A" \in ev.tw.wait_set
    /\ "A" \notin ev.tw.done_set
    /\ "A" \in Monitored(ev.tw)
    /\ ev.calls = <<>>

(***************************************************************************)
(* Properties of the progress flags under interleaved commands             *)
(***************************************************************************)
\* C34: in every state SETUP = 1 implies CONFIGURED = 1, and CONFIGURED = 1
\* implies INITIALISED = 1
C34_FlagsOrdered ==
    /\ par.SETUP = 1 => par.CONFIGURED = 1
    /\ par.CONFIGURED = 1 => par.INITIALISED = 1

\* C35: in every state CONFIGURED = 1 implies that CONFIGURE_ID is the target
\* of a completed CONFIGURE, so neither -1 nor -9999, and SETUP = 1 implies the
\* same of SETUP_SEQ_ID; a rejected start leaves the flag and the id consistent
C35_IdMatchesFlag ==
    /\ par.CONFIGURED = 1 => par.CONFIGURE_ID \notin {-1, BadVal}
    /\ par.SETUP = 1 => par.SETUP_SEQ_ID \notin {-1, BadVal}

\* the error codes with which a start is refused by its precondition checks
Refusals ==
    {"RTSDC__NOT_INITIALISED", "RTSDC__NOT_CONFIGURED", "RTSDC__NOT_SETUP",
     "RTSDC__ACTION_WHILE_SEQ_ACTIVE"}

\* C36: while SEQUENCE is active every OBEY of CONFIGURE or SETUP_SEQUENCE is
\* refused by the precondition checks, and no entry of another action takes
\* CONFIGURED or SETUP from 1 to 0
C36_SequenceExcludesSetup ==
    [][(seq.active /\ ev' # ev /\ ev'.action # "SEQUENCE") =>
          /\ (ev'.action \in Cohort /\ ev'.msg.reason = "OBEY") =>
                ev'.exc.code \in Refusals
          /\ par.CONFIGURED = 1 => par'.CONFIGURED = 1
          /\ par.SETUP = 1 => par'.SETUP = 1]_vars

\* the batches published so far hold, one after the other, the frames first..last,
\* each once: every batch starts at the frame after the one the batch before it
\* ended at
Contiguous(pubs, first, last) ==
    /\ pubs # <<>>
    /\ pubs[Len(pubs)].at = last
    /\ \A k \in DOMAIN pubs :
          pubs[k].at - pubs[k].n = IF k = 1 THEN first - 1 ELSE pubs[k - 1].at

\* C37: in an activation of SEQUENCE fed the frames start..end one after the
\* other, with no user callback to alter a batch, once the frame numbered end
\* has been processed the unpublished batch is empty and the batches published
\* in the activation are together the frames start..end in order, each once, for
\* every START, END, STSPL_TOTAL and STSPL_START that were accepted
C37_AllFramesPublished ==
    (/\ ev.action = "SEQUENCE"
     /\ ev.result # "error"
     /\ user = {}
     /\ ev.q.start <= ev.q.end
     /\ ev.q.i = ev.q.end) =>
        /\ ev.q.state = <<>>
        /\ Contiguous(ev.q.pubs, ev.q.start, ev.q.end)

\* C38: in every state of an activation of SEQUENCE the frame counter is at
\* least start - 1 and at most end, and no frame numbered beyond end is in the
\* batch, whether it came in the notification that carried frame end or in a
\* later one
C38_CounterWithinRange ==
    seq.active =>
        /\ seq.start - 1 <= seq.i
        /\ seq.i <= seq.end
        /\ \A k \in DOMAIN seq.state : seq.state[k] <= seq.end

\* the calls of drama.cancel in a list of calls
CancelCalls(calls) == {k \in DOMAIN calls : calls[k].op = "drama.cancel"}

\* handle() cancels with self.mid as it was at its start, which is not None; a
\* new value of self.mid is the MONITOR_ID of the MON_STARTED of self.tid
\* handled in this call, and a new subscription starts with self.mid None
RetryMonitorCancels ==
    rm' # rm =>
        /\ \A k \in CancelCalls(rm'.calls) :
              /\ rm'.calls[k].id # None
              /\ rm'.calls[k].id = rm.mid
              /\ rm_hist.acked
        /\ (rm'.mid # None /\ rm'.mid # rm.mid) =>
              /\ rm_msg'.reason = "TRIGGER"
              /\ rm_msg'.status = "MON_STARTED"
              /\ rm_msg'.transid = rm.tid
              /\ rm_msg'.mid = rm'.mid
        /\ HasCall(rm', "drama.monitor") => rm'.mid = None

\* the entry e of the action that held c cancels only the monitor whose
\* notification it got, with the id that monitor's acknowledgement carried
TaskWaiterCancels(c, e) ==
    \A k \in CancelCalls(e.calls) :
        LET t == e.msg.transid IN
        /\ t \in DOMAIN c.tw.transid_dict
        /\ c.tw.transid_dict[t].mid # None
        /\ c.tw.transid_dict[t].mid = MonitorId(t)
        /\ e.calls[k].task = c.tw.transid_dict[t].task
        /\ e.calls[k].id = c.tw.transid_dict[t].mid

\* SEQUENCE cancels only the monitor of its activation, after its
\* acknowledgement, with the id the acknowledgement carried
SequenceCancels ==
    \A k \in CancelCalls(ev'.calls) :
        /\ seq.active
        /\ seq.acked
        /\ ev'.calls[k].task = "RTS"
        /\ ev'.calls[k].id # None
        /\ ev'.calls[k].id = MonitorId(seq.transid)

\* C39: when every acknowledgement is delivered before the change notifications
\* of its monitor, RetryMonitor, TaskWaiter.check_monitors and SEQUENCE call
\* drama.cancel only with a subscription id that is not None and is the one
\* acknowledged for the monitor of the current activation
C39_CancelsAcknowledgedId ==
    [][/\ RetryMonitorCancels
       /\ (ev' # ev /\ ev'.action = "CONFIGURE") => TaskWaiterCancels(cfg, ev')
       /\ (ev' # ev /\ ev'.action = "SETUP_SEQUENCE") => TaskWaiterCancels(sus, ev')
       /\ (ev' # ev /\ ev'.action = "SEQUENCE") => SequenceCancels]_vars

\* SEQUENCE has just cancelled its monitor at frame end, with the id of its
\* acknowledgement, in a task whose CONFIGURE had completed with the id 5
C39_Witness ==
    /\ ev.action = "SEQUENCE"
    /\ ev.q.i = ev.q.end
    /\ CancelCalls(ev.calls) # {}
    /\ ev.q.monid = MonitorId(ev.q.transid)
    /\ par.CONFIGURE_ID = 5

\* the action a has just ended, returning normally, with its id parameter at
\* the target of its TaskWaiter and its flag 1
EndedWell(a, id, flag) ==
    /\ ev.action = a
    /\ ev.result = "done"
    /\ ev.tw.matchval = 5
    /\ par[id] = 5
    /\ par[flag] = 1

\* C40: when messages are delivered fairly, every task in the wait_set of an
\* activation of CONFIGURE (SETUP_SEQUENCE) in time reports the target id and
\* none reports -9999, and the user callback does not ask for a reschedule for
\* ever, the activation in time ends with CONFIGURE_ID (SETUP_SEQ_ID) at the
\* target and CONFIGURED (SETUP) 1
C40_EventuallyDone ==
    /\ cfg.active ~> (~cfg.active /\ EndedWell("CONFIGURE", "CONFIGURE_ID", "CONFIGURED"))
    /\ sus.active ~> (~sus.active /\ EndedWell("SETUP_SEQUENCE", "SETUP_SEQ_ID", "SETUP"))

\* CONFIGURE, having waited for the tasks A and B, ends on the target id from
\* the one that was still outstanding
C40_Witness ==
    /\ EndedWell("CONFIGURE", "CONFIGURE_ID", "CONFIGURED")
    /\ ~cfg.active
    /\ ev.msg.reason = "TRIGGER"
    /\ ev.msg.status = "MON_CHANGED"
    /\ ev.msg.val = 5
    /\ ev.tw.wait_set = {"A", "B"}
    /\ ev.tw.done_set = {"A", "B"}
====
